---- MODULE Spec2Model ----
(***************************************************************************)
(* Control plane of the diamond-topology traffic balancer:                 *)
(*   - SmartSwitchController / EqualDiamondRouter (pox_ext/diamond/router)  *)
(*   - ConnectionManager (pox_ext/diamond/connection_manager)               *)
(*   - ConnectionIf and its transport (sockets_lib/connection)              *)
(* Addresses (IP and MAC) are positive integers; 0 is the wildcard of an    *)
(* OpenFlow match.  A switch's flow table is the result of the flow-mod     *)
(* messages the controller has sent to it.                                  *)
(***************************************************************************)
EXTENDS Integers, Sequences, FiniteSets, TLC

VARIABLES
    switch,            \* EqualDiamondRouter.__switch_1 / __switch_4 (SmartSwitchController state)
    dumb,              \* EqualDiamondRouter.__switch_2 / __switch_3 (rules sent by DumbSwitchController)
    up_connections,    \* ConnectionManager.__up_connections   (key -> use count)
    down_connections,  \* ConnectionManager.__down_connections (key -> use count)
    calls,             \* the last direct request to the router and what it did
    run,               \* record of the event sequence processed so far
    conn,              \* one ConnectionIf instance and its transport
    clog,              \* what the connection has done: sends, writes, callbacks
    poller,            \* one ConnectionPoller and the thread polling it
    thread,            \* positions of the threads that share one connection or one driver
    listener,          \* ConnectionListener: datagrams pending, events raised
    trace              \* the last traced poll() of the connection: its steps in order

vars == <<switch, dumb, up_connections, down_connections, calls, run, conn, clog,
          poller, thread, listener, trace>>

routerVars == <<switch, dumb>>
managerVars == <<up_connections, down_connections>>
connVars == <<conn, clog>>
auxVars == <<poller, thread, listener, trace>>

----------------------------------------------------------------------------
(* Bounds *)

MaxIP == 4          \* host addresses are 1..MaxIP
MaxCount == 2       \* a flow key is opened at most this many times more than it is closed
MaxSends == 3       \* messages passed to send() on the connection
MaxInbound == 2     \* chunks the peer delivers to the connection
MaxFails == 2       \* writes the transport answers with false

IPs == 1..MaxIP
MACs == 1..2
EdgeDpids == {1, 4}
CoreDpids == {2, 3}
SwitchPorts == {1, 2, 3}   \* 1 and 2 face the core switches, 3 faces hosts

(* flow_table_priorities.py *)
PRIORITY_FLOOD_FORWARD_ALWAYS == 1
PRIORITY_FLOOD_IF_PORT == 2
PRIORITY_SEND_FROM_MAC == 3
PRIORITY_SEND_TO_MAC == 255
PRIORITY_ROUTE_CONNECTION == 256

(* OpenFlow 1.0 reserved ports used by router.py *)
OFPP_FLOOD == 65531
OFPP_CONTROLLER == 65533

----------------------------------------------------------------------------
(* Flow tables.  A rule is [priority, in_port, dl_src, dl_dst, nw_src,      *)
(* nw_dst, actions]; 0 in a match field is the wildcard.                    *)

Rule(prio, in_port, dl_src, dl_dst, nw_src, nw_dst, actions) ==
    [priority |-> prio, in_port |-> in_port, dl_src |-> dl_src, dl_dst |-> dl_dst,
     nw_src |-> nw_src, nw_dst |-> nw_dst, actions |-> actions]

SameMatch(r, q) ==
    /\ r.priority = q.priority
    /\ r.in_port = q.in_port
    /\ r.dl_src = q.dl_src
    /\ r.dl_dst = q.dl_dst
    /\ r.nw_src = q.nw_src
    /\ r.nw_dst = q.nw_dst

\* the match of q is at least as specific as the match of pattern m
Covers(m, q) ==
    /\ m.in_port \in {0, q.in_port}
    /\ m.dl_src \in {0, q.dl_src}
    /\ m.dl_dst \in {0, q.dl_dst}
    /\ m.nw_src \in {0, q.nw_src}
    /\ m.nw_dst \in {0, q.nw_dst}

Outputs(r) == {r.actions[i] : i \in 1..Len(r.actions)}

\* OFPFC_ADD: an entry with the same match and priority is replaced
FlowAdd(table, r) == {q \in table : ~SameMatch(r, q)} \cup {r}

\* OFPFC_DELETE (non-strict); out_ports is the out_port filter of the
\* message: {} when it has none, {p} when it names port p
FlowDelete(table, m, out_ports) ==
    {q \in table : ~(Covers(m, q) /\ out_ports \subseteq Outputs(q))}

\* A frame as the switch sees it; it has no IPv4 header when nw_src = 0.
Frame(in_port, dl_src, dl_dst) == Rule(0, in_port, dl_src, dl_dst, 0, 0, <<>>)

\* the entries of the table that the switch may apply to frame f: those
\* of the highest priority among the entries that match it
Applied(table, f) ==
    {r \in table : /\ Covers(r, f)
                   /\ \A q \in table : Covers(q, f) => q.priority <= r.priority}

\* the ports of the switch a frame leaves on when entry r is applied: the
\* ports output by name other than the ingress port, and for the flood
\* action every port that is neither the ingress port nor marked no-flood
Egress(ports, no_flood, f, r) ==
    {p \in ports : /\ p # f.in_port
                   /\ \/ p \in Outputs(r)
                      \/ OFPP_FLOOD \in Outputs(r) /\ p \notin no_flood}

----------------------------------------------------------------------------
(* SmartSwitchController *)

NoMacs == [m \in {} |-> 0]

NoSwitch ==
    [connected |-> FALSE, ports |-> {}, default_route_is_setup |-> FALSE,
     mac_to_port |-> NoMacs, learned_ips |-> {}, table |-> {}, no_flood |-> {}]

ip_route_add_mod(local_ip, other_ip, port) ==
    Rule(PRIORITY_ROUTE_CONNECTION, 0, 0, 0, local_ip, other_ip, <<port>>)

send_for_mac_to_port_mod(mac, port) ==
    Rule(PRIORITY_SEND_TO_MAC, 0, 0, mac, 0, 0, <<port>>)

flood_and_forward_from_mac_mod(mac) ==
    Rule(PRIORITY_SEND_FROM_MAC, 0, mac, 0, 0, 0, <<1, OFPP_FLOOD>>)

flood_from_mac_mod(mac) ==
    Rule(PRIORITY_SEND_FROM_MAC, 0, mac, 0, 0, 0, <<OFPP_FLOOD>>)

flood_and_forward_local_mod ==
    Rule(PRIORITY_FLOOD_FORWARD_ALWAYS, 0, 0, 0, 0, 0, <<OFPP_FLOOD, 1, OFPP_CONTROLLER>>)

flood_and_forward_other_mod(port) ==
    Rule(PRIORITY_FLOOD_IF_PORT, port, 0, 0, 0, 0, <<OFPP_FLOOD, OFPP_CONTROLLER>>)

clear_table_mod == Rule(0, 0, 0, 0, 0, 0, <<>>)

\* __set_default_route: the messages are sent one by one; building the
\* no-flood message of a missing port raises MissingPortError and the
\* messages already sent stay sent.  Result: [ok, sw].
set_default_route(sw) ==
    LET s0 == [sw EXCEPT !.table = FlowDelete(sw.table, clear_table_mod, {})]
        s1 == [s0 EXCEPT !.no_flood = @ \cup {1}]
        s2 == [s1 EXCEPT !.no_flood = @ \cup {2}]
        s3 == [s2 EXCEPT !.table =
                 FlowAdd(FlowAdd(FlowAdd(@, flood_and_forward_local_mod),
                                 flood_and_forward_other_mod(1)),
                         flood_and_forward_other_mod(2))]
    IN  IF 1 \notin sw.ports THEN [ok |-> FALSE, sw |-> s0]
        ELSE IF 2 \notin sw.ports THEN [ok |-> FALSE, sw |-> s1]
        ELSE [ok |-> TRUE, sw |-> s3]

\* the messages __set_default_route sends, by the name of the method that
\* builds each; it stops at the first no-flood message of a missing port
set_default_route_mods(sw) ==
    IF 1 \notin sw.ports THEN <<"clear_table_mod">>
    ELSE IF 2 \notin sw.ports THEN <<"clear_table_mod", "no_flood_mod(1)">>
    ELSE <<"clear_table_mod", "no_flood_mod(1)", "no_flood_mod(2)",
           "flood_and_forward_local_mod",
           "flood_and_forward_other_mod(1)", "flood_and_forward_other_mod(2)">>

\* mutant: the flag is not consulted
try_set_default_route_unguarded(sw) ==
    LET r == set_default_route(sw)
    IN  IF r.ok THEN [r.sw EXCEPT !.default_route_is_setup = TRUE] ELSE r.sw

\* mutant: the flag is set whether or not the installation succeeded
try_set_default_route_flagAlways(sw) ==
    IF sw.default_route_is_setup THEN sw
    ELSE [set_default_route(sw).sw EXCEPT !.default_route_is_setup = TRUE]

try_set_default_route(sw) ==
    IF sw.default_route_is_setup THEN sw
    ELSE LET r == set_default_route(sw)
         IN  IF r.ok THEN [r.sw EXCEPT !.default_route_is_setup = TRUE] ELSE r.sw

\* the messages __try_set_default_route sends
try_set_default_route_mods(sw) ==
    IF sw.default_route_is_setup THEN <<>> ELSE set_default_route_mods(sw)

\* SmartSwitchController.__init__ on a connection whose ports are `ports`
SmartSwitchInit(ports) ==
    try_set_default_route([NoSwitch EXCEPT !.connected = TRUE, !.ports = ports])

\* the flow-mod messages __learn_port_route sends
learn_port_mods(sw, port, mac) ==
    LET p == IF port = 2 THEN 1 ELSE port
    IN  IF mac \in DOMAIN sw.mac_to_port THEN <<>>
        ELSE <<send_for_mac_to_port_mod(mac, p),
               IF p = 1 THEN flood_from_mac_mod(mac)
               ELSE flood_and_forward_from_mac_mod(mac)>>

\* mutant: a known MAC seen on another port is mapped again
learn_port_route_update(sw, port, mac) ==
    LET p == IF port = 2 THEN 1 ELSE port
    IN  [sw EXCEPT !.mac_to_port = (mac :> p) @@ @,
                   !.table = FlowAdd(@, send_for_mac_to_port_mod(mac, p))]

\* mutant: the port is recorded as seen
learn_port_route_asSeen(sw, port, mac) ==
    IF mac \in DOMAIN sw.mac_to_port THEN sw
    ELSE [sw EXCEPT !.mac_to_port = (mac :> port) @@ @,
                    !.table = FlowAdd(FlowAdd(@, send_for_mac_to_port_mod(mac, port)),
                                      IF port = 1 THEN flood_from_mac_mod(mac)
                                      ELSE flood_and_forward_from_mac_mod(mac))]

learn_port_route(sw, port, mac) ==
    IF mac \in DOMAIN sw.mac_to_port THEN sw
    ELSE LET p == IF port = 2 THEN 1 ELSE port
             m == learn_port_mods(sw, port, mac)
         IN  [sw EXCEPT !.mac_to_port = (mac :> p) @@ @,
                        !.table = FlowAdd(FlowAdd(@, m[1]), m[2])]

\* mutant: the source IP is recorded whatever the port
packetIn_anyPort(sw, parsed, port, mac, ip) ==
    IF parsed /\ ip # 0 /\ mac # 0
    THEN [learn_port_route(sw, port, mac) EXCEPT !.learned_ips = @ \cup {ip}]
    ELSE sw

\* __packetIn; ip = 0 stands for a frame without an IPv4 header
packetIn(sw, parsed, port, mac, ip) ==
    IF ~parsed THEN sw
    ELSE IF ip # 0 /\ mac # 0
         THEN LET s1 == learn_port_route(sw, port, mac)
              IN  IF port > 2 THEN [s1 EXCEPT !.learned_ips = @ \cup {ip}] ELSE s1
         ELSE sw

\* the flow-mod messages __packetIn sends
packetIn_mods(sw, parsed, port, mac, ip) ==
    IF parsed /\ ip # 0 /\ mac # 0 THEN learn_port_mods(sw, port, mac) ELSE <<>>

has_learned(sw, ip) == ip \in sw.learned_ips

\* a message on the control channel of switch dpid
Msg(dpid, cmd, rule) == [dpid |-> dpid, cmd |-> cmd, rule |-> rule]

\* mutant: the rule is built from the addresses in the order given
add_route_asGiven(sw, dpid, src_ip, dest_ip, port) ==
    [ok |-> has_learned(sw, src_ip) # has_learned(sw, dest_ip),
     sw |-> [sw EXCEPT !.table = FlowAdd(@, ip_route_add_mod(src_ip, dest_ip, port))],
     msgs |-> <<Msg(dpid, "add", ip_route_add_mod(src_ip, dest_ip, port))>>]

\* add_route / remove_route of the switch with this dpid: [ok, sw, msgs];
\* ok = FALSE is a failed assertion
add_route(sw, dpid, src_ip, dest_ip, port) ==
    LET sent(local_ip, other_ip) ==
            [ok |-> TRUE,
             sw |-> [sw EXCEPT !.table = FlowAdd(@, ip_route_add_mod(local_ip, other_ip, port))],
             msgs |-> <<Msg(dpid, "add", ip_route_add_mod(local_ip, other_ip, port))>>]
        failed == [ok |-> FALSE, sw |-> sw, msgs |-> <<>>]
    IN  IF has_learned(sw, src_ip)
        THEN IF has_learned(sw, dest_ip) THEN failed ELSE sent(src_ip, dest_ip)
        ELSE IF ~has_learned(sw, dest_ip) THEN failed ELSE sent(dest_ip, src_ip)

remove_route(sw, dpid, src_ip, dest_ip, port) ==
    LET sent(local_ip, other_ip) ==
            [ok |-> TRUE,
             sw |-> [sw EXCEPT !.table =
                        FlowDelete(@, ip_route_add_mod(local_ip, other_ip, port), {port})],
             msgs |-> <<Msg(dpid, "delete", ip_route_add_mod(local_ip, other_ip, port))>>]
        failed == [ok |-> FALSE, sw |-> sw, msgs |-> <<>>]
    IN  IF has_learned(sw, src_ip)
        THEN IF has_learned(sw, dest_ip) THEN failed ELSE sent(src_ip, dest_ip)
        ELSE IF ~has_learned(sw, dest_ip) THEN failed ELSE sent(dest_ip, src_ip)

----------------------------------------------------------------------------
(* EqualDiamondRouter.  `sws` is the pair of edge switch controllers.       *)

learned_by(sws, ip) ==
    IF has_learned(sws[1], ip) THEN 1
    ELSE IF has_learned(sws[4], ip) THEN 4
    ELSE 0

route_should_be_established(sws, src_ip, dest_ip) ==
    IF ~sws[1].connected \/ ~sws[4].connected THEN FALSE
    ELSE IF learned_by(sws, src_ip) = 0 \/ learned_by(sws, dest_ip) = 0 THEN FALSE
    ELSE IF learned_by(sws, src_ip) = learned_by(sws, dest_ip) THEN FALSE
    ELSE TRUE

\* the out port of each edge switch for a side
PortOf(side, dpid) ==
    IF side = "up" THEN (IF dpid = 1 THEN 1 ELSE 2)
    ELSE (IF dpid = 1 THEN 2 ELSE 1)

\* add_route_up / add_route_down: ret is "true", "false", or "raise" when an
\* assertion of a switch fails (what was sent before it stays sent)
router_add_route(sws, side, src_ip, dest_ip) ==
    IF ~route_should_be_established(sws, src_ip, dest_ip)
    THEN [ret |-> "false", sws |-> sws, msgs |-> <<>>]
    ELSE LET r1 == add_route(sws[1], 1, src_ip, dest_ip, PortOf(side, 1))
             a1 == [sws EXCEPT ![1] = r1.sw]
             r4 == add_route(sws[4], 4, src_ip, dest_ip, PortOf(side, 4))
             a4 == [a1 EXCEPT ![4] = r4.sw]
         IN  IF ~r1.ok THEN [ret |-> "raise", sws |-> sws, msgs |-> <<>>]
             ELSE IF ~r4.ok THEN [ret |-> "raise", sws |-> a1, msgs |-> r1.msgs]
             ELSE [ret |-> "true", sws |-> a4, msgs |-> r1.msgs \o r4.msgs]

\* remove_route_up / remove_route_down: ret is "none" (the method returns
\* nothing) or "raise"
router_remove_route(sws, side, src_ip, dest_ip) ==
    IF ~route_should_be_established(sws, src_ip, dest_ip)
    THEN [ret |-> "none", sws |-> sws, msgs |-> <<>>]
    ELSE LET r1 == remove_route(sws[1], 1, src_ip, dest_ip, PortOf(side, 1))
             a1 == [sws EXCEPT ![1] = r1.sw]
             r4 == remove_route(sws[4], 4, src_ip, dest_ip, PortOf(side, 4))
             a4 == [a1 EXCEPT ![4] = r4.sw]
         IN  IF ~r1.ok THEN [ret |-> "raise", sws |-> sws, msgs |-> <<>>]
             ELSE IF ~r4.ok THEN [ret |-> "raise", sws |-> a1, msgs |-> r1.msgs]
             ELSE [ret |-> "none", sws |-> a4, msgs |-> r1.msgs \o r4.msgs]

\* one call of the router, as the caller sees it
Call(op, side, src, dst, r) ==
    [op |-> op, side |-> side, src |-> src, dst |-> dst, ret |-> r.ret, msgs |-> r.msgs]

----------------------------------------------------------------------------
(* ConnectionManager.  A handler's outcome is the record MState: the two    *)
(* maps, the switches, the router calls made and whether the handler was    *)
(* left by an exception.                                                    *)

MState(up, down, sws, cs, raised) ==
    [up |-> up, down |-> down, sws |-> sws, calls |-> cs, raised |-> raised]

Without(f, k) == [x \in DOMAIN f \ {k} |-> f[x]]

Size(f) == Cardinality(DOMAIN f)

\* mutant: the key is not sorted
Key_unsorted(src, dest) == <<src, dest>>

\* tuple(sorted([event.dest, event.src]))
Key(src, dest) == IF dest <= src THEN <<dest, src>> ELSE <<src, dest>>

\* mutant: only the up map is looked up
TrackedSide_upOnly(up, down, key) == IF key \in DOMAIN up THEN "up" ELSE "none"

\* which map holds the key: `if key in up ... elif key in down ... else`
TrackedSide(up, down, key) ==
    IF key \in DOMAIN up THEN "up"
    ELSE IF key \in DOMAIN down THEN "down"
    ELSE "none"

\* mutant: a tie goes down
ChooseSide_tieDown(up, down) == IF Size(down) <= Size(up) THEN "down" ELSE "up"

\* the side a new flow is routed on
ChooseSide(up, down) == IF Size(down) < Size(up) THEN "down" ELSE "up"

connectionStarted(up, down, sws, src, dest) ==
    LET key == Key(src, dest)
        t == TrackedSide(up, down, key)
    IN  IF t = "up" THEN MState([up EXCEPT ![key] = @ + 1], down, sws, <<>>, FALSE)
        ELSE IF t = "down" THEN MState(up, [down EXCEPT ![key] = @ + 1], sws, <<>>, FALSE)
        ELSE LET side == ChooseSide(up, down)
                 r == router_add_route(sws, side, src, dest)
                 c == <<Call("add", side, src, dest, r)>>
             IN  IF r.ret # "true" THEN MState(up, down, r.sws, c, r.ret = "raise")
                 ELSE IF side = "down"
                      THEN MState(up, (key :> 1) @@ down, r.sws, c, FALSE)
                      ELSE MState((key :> 1) @@ up, down, r.sws, c, FALSE)

\* __connectionEnded up to the rebalancing loops
connectionEndedCount(up, down, sws, src, dest) ==
    LET key == Key(src, dest)
        t == TrackedSide(up, down, key)
    IN  IF t = "up"
        THEN IF up[key] - 1 = 0
             THEN LET r == router_remove_route(sws, "up", src, dest)
                  IN  MState(Without(up, key), down, r.sws,
                             <<Call("remove", "up", src, dest, r)>>, r.ret = "raise")
             ELSE MState([up EXCEPT ![key] = @ - 1], down, sws, <<>>, FALSE)
        ELSE IF t = "down"
        THEN IF down[key] - 1 = 0
             THEN LET r == router_remove_route(sws, "down", src, dest)
                  IN  MState(up, Without(down, key), r.sws,
                             <<Call("remove", "down", src, dest, r)>>, r.ret = "raise")
             ELSE MState(up, [down EXCEPT ![key] = @ - 1], sws, <<>>, FALSE)
        ELSE MState(up, down, sws, <<>>, FALSE)

\* the router calls of one pass of a rebalancing loop for the popped key
moveRoute(st, from, to, key) ==
    LET r == router_remove_route(st.sws, from, key[1], key[2])
        c1 == Append(st.calls, Call("remove", from, key[1], key[2], r))
        a == router_add_route(r.sws, to, key[1], key[2])
        c2 == Append(c1, Call("add", to, key[1], key[2], a))
    IN  IF r.ret = "raise" THEN [st EXCEPT !.sws = r.sws, !.calls = c1, !.raised = TRUE]
        ELSE [st EXCEPT !.sws = a.sws, !.calls = c2, !.raised = (a.ret = "raise")]

\* one pass of `while len(up) > len(down) + 1`: popitem() takes some key
\* out of up, the route is removed up and added down
rebalanceUpStep(st, key) ==
    moveRoute([st EXCEPT !.up = Without(st.up, key)], "up", "down", key)

\* one pass of `while len(down) > len(up) + 1`
rebalanceDownStep(st, key) ==
    moveRoute([st EXCEPT !.down = Without(st.down, key)], "down", "up", key)

\* the outcomes of the first loop, over every choice popitem() can make
RECURSIVE rebalanceUp(_)
rebalanceUp(st) ==
    IF st.raised THEN {st}
    ELSE IF Size(st.up) > Size(st.down) + 1
         THEN UNION {rebalanceUp(rebalanceUpStep(st, k)) : k \in DOMAIN st.up}
         ELSE {st}

RECURSIVE rebalanceDown(_)
rebalanceDown(st) ==
    IF st.raised THEN {st}
    ELSE IF Size(st.down) > Size(st.up) + 1
         THEN UNION {rebalanceDown(rebalanceDownStep(st, k)) : k \in DOMAIN st.down}
         ELSE {st}

\* __connectionEnded: every outcome of the handler
connectionEnded(up, down, sws, src, dest) ==
    UNION {rebalanceDown(s) :
             s \in rebalanceUp(connectionEndedCount(up, down, sws, src, dest))}

----------------------------------------------------------------------------
(* ConnectionIf over a transport (TCPConnection's open flag).  None is 0   *)
(* for the buffer and -1 for max_reads / max_writes.  The transport's       *)
(* answers are inputs of poll: `k` reads return data before one returns     *)
(* `rend` ("none": nothing to read, "empty": an empty read, "raise": the    *)
(* transport failed), `nw` writes succeed before one returns `wend` ("ok",  *)
(* "false": not written, "raise": the transport failed).                    *)

Msgs == {1, 2}
Limits == {-1, 1}
ON_CLOSED == 0      \* the on-closed callback in the log of callbacks

NewConnection(max_reads, max_writes) ==
    [rcv_reads |-> max_reads, max_writes |-> max_writes,
     pub_queue |-> <<>>, buffer |-> 0,
     closed |-> FALSE, was_closed |-> FALSE, did_just_close |-> FALSE,
     t_open |-> TRUE]

NewLog ==
    [sent |-> <<>>,          \* messages send() has queued
     writes |-> <<>>,        \* every call of _write: the message and the answer
     callbacks |-> <<>>,     \* callbacks invoked: a chunk for on-data, ON_CLOSED
     rx |-> 0,               \* chunks read so far; chunk n is the n-th read
     shutdowns |-> 0,        \* calls of _close
     polled_closed |-> FALSE, \* a poll has ended with the connection closed
     refused |-> FALSE,      \* a send() has raised ConnectionIsClosedError
     close_called |-> FALSE] \* close() has been called

IO(c, l, raised) == [c |-> c, l |-> l, raised |-> raised]

\* close(): ok = FALSE when the transport's shutdown raises
close(c, l, ok) ==
    IF ~c.closed
    THEN IO([c EXCEPT !.closed = TRUE, !.t_open = IF ok THEN FALSE ELSE @],
            [l EXCEPT !.shutdowns = @ + 1, !.close_called = TRUE], ~ok)
    ELSE IO(c, [l EXCEPT !.close_called = TRUE], FALSE)

\* mutant: the closed flag is not tested
send_unchecked(c, l, data) ==
    IO([c EXCEPT !.pub_queue = Append(@, data)], [l EXCEPT !.sent = Append(@, data)], FALSE)

\* send(data): raised = TRUE is ConnectionIsClosedError
send(c, l, data) ==
    IF c.closed THEN IO(c, [l EXCEPT !.refused = TRUE], TRUE)
    ELSE IO([c EXCEPT !.pub_queue = Append(@, data)], [l EXCEPT !.sent = Append(@, data)], FALSE)

\* `self._is_open` in poll names the method without calling it: a bound
\* method is true
is_open_attribute == TRUE

\* mutant: was_closed is not consulted
just_closed_everyPoll(c) == c.closed \/ ~is_open_attribute

\* the test at the top of poll for a connection that has just closed
just_closed(c) == ~c.was_closed /\ (c.closed \/ ~is_open_attribute)

\* mutant: the newest queued message is taken
take_next_newest(c) ==
    IF c.pub_queue # <<>>
    THEN [c EXCEPT !.buffer = c.pub_queue[Len(c.pub_queue)],
                   !.pub_queue = SubSeq(c.pub_queue, 1, Len(c.pub_queue) - 1)]
    ELSE [c EXCEPT !.buffer = 0]

\* Queue.get(): the oldest queued message becomes the buffer
take_next(c) ==
    IF c.pub_queue # <<>>
    THEN [c EXCEPT !.buffer = Head(c.pub_queue), !.pub_queue = Tail(c.pub_queue)]
    ELSE [c EXCEPT !.buffer = 0]

\* the read loop of poll; `got` is data_read
RECURSIVE readLoop(_, _, _, _, _, _)
readLoop(c, l, got, reads, k, rend) ==
    IF ~c.t_open \/ (k = 0 /\ rend = "raise")
    THEN [c |-> [c EXCEPT !.t_open = FALSE], l |-> l, got |-> got, raised |-> TRUE,
          steps |-> <<"read_raise">>]
    ELSE IF k = 0
    THEN [c |-> c, l |-> l, got |-> got, raised |-> FALSE,
          steps |-> <<IF rend = "none" THEN "read_none" ELSE "read_empty">>]
    ELSE LET l1 == [l EXCEPT !.rx = @ + 1]
             got1 == Append(got, l1.rx)
         IN  IF c.rcv_reads # -1 /\ reads + 1 >= c.rcv_reads
             THEN [c |-> c, l |-> l1, got |-> got1, raised |-> FALSE,
                   steps |-> <<"read_ok">>]
             ELSE [readLoop(c, l1, got1, reads + 1, k - 1, rend)
                      EXCEPT !.steps = <<"read_ok">> \o @]

\* the write loop of poll
RECURSIVE writeLoop(_, _, _, _, _)
writeLoop(c, l, publishes, nw, wend) ==
    IF publishes <= 0 THEN [c |-> c, l |-> l, raised |-> FALSE, steps |-> <<>>]
    ELSE LET answer == IF ~c.t_open THEN "raise" ELSE IF nw > 0 THEN "ok" ELSE wend
             l1 == [l EXCEPT !.writes = Append(@, [msg |-> c.buffer, res |-> answer])]
         IN  IF answer = "ok"
             THEN [writeLoop(take_next(c), l1, publishes - 1, nw - 1, wend)
                      EXCEPT !.steps = <<"write_ok">> \o @]
             ELSE IF answer = "false"
             THEN [c |-> c, l |-> l1, raised |-> FALSE, steps |-> <<"write_false">>]
             ELSE [c |-> [c EXCEPT !.t_open = FALSE], l |-> l1, raised |-> TRUE,
                   steps |-> <<"write_raise">>]

Min(a, b) == IF a < b THEN a ELSE b

\* the body of `if not self.__closed:` in poll
pollIO(c, l, k, rend, nw, wend) ==
    LET r == readLoop(c, l, <<>>, 0, k, rend)
        c1 == IF r.c.buffer = 0 /\ r.c.pub_queue # <<>> THEN take_next(r.c) ELSE r.c
        messages == IF c1.buffer # 0 THEN Len(c1.pub_queue) + 1 ELSE 0
        publishes == IF c1.max_writes = -1 THEN messages ELSE Min(messages, c1.max_writes)
        w == writeLoop(c1, r.l, publishes, nw, wend)
    IN  IF r.raised THEN r
        ELSE [c |-> w.c, l |-> w.l, got |-> r.got, raised |-> w.raised,
              steps |-> r.steps \o w.steps]

\* the statements of poll(), in order.  First `self.__did_just_close =
\* False`:
poll_reset(c) == [c EXCEPT !.did_just_close = FALSE]

\* mutant: the test never marks the connection
poll_test_noMark(c) == c

\* the test for a connection that has just closed, and its body
poll_test(c) ==
    IF just_closed(c)
    THEN [c EXCEPT !.did_just_close = TRUE, !.closed = TRUE, !.was_closed = TRUE]
    ELSE c

\* mutant: the except branch does not set __was_closed
poll_try_forgetful(c, l, k, rend, nw, wend) ==
    LET io == pollIO(c, l, k, rend, nw, wend)
    IN  IF io.raised
        THEN [io EXCEPT !.c = [@ EXCEPT !.closed = TRUE, !.did_just_close = TRUE],
                        !.raised = FALSE]
        ELSE io

\* mutant: there is no except branch
poll_try_noExcept(c, l, k, rend, nw, wend) == pollIO(c, l, k, rend, nw, wend)

\* the reads and writes of `if not self.__closed:` with the except branch
\* of the try statement: [c, l, got, raised, steps], where `raised` tells
\* whether an exception leaves the try statement
poll_try(c, l, k, rend, nw, wend) ==
    LET io == pollIO(c, l, k, rend, nw, wend)
    IN  IF io.raised
        THEN [io EXCEPT !.c = [@ EXCEPT !.closed = TRUE, !.was_closed = TRUE,
                                        !.did_just_close = TRUE],
                        !.raised = FALSE]
        ELSE io

\* mutant: on-closed is called before the on-data callbacks
poll_finish_closedFirst(c, l, got) ==
    LET l2 == [l EXCEPT !.polled_closed = @ \/ c.closed]
        on_data == [i \in 1..Len(got) |-> "on_data"]
    IN  IF c.did_just_close
        THEN [c |-> [c EXCEPT !.pub_queue = <<>>],
              l |-> [l2 EXCEPT !.callbacks = (@ \o <<ON_CLOSED>>) \o got],
              steps |-> <<"on_closed">> \o on_data]
        ELSE [c |-> c, l |-> [l2 EXCEPT !.callbacks = @ \o got], steps |-> on_data]

\* mutant: the queue is kept when the connection has just closed
poll_finish_keepsQueue(c, l, got) ==
    LET l2 == [l EXCEPT !.callbacks = @ \o got, !.polled_closed = @ \/ c.closed]
        on_data == [i \in 1..Len(got) |-> "on_data"]
    IN  IF c.did_just_close
        THEN [c |-> c, l |-> [l2 EXCEPT !.callbacks = Append(@, ON_CLOSED)],
              steps |-> Append(on_data, "on_closed")]
        ELSE [c |-> c, l |-> l2, steps |-> on_data]

\* after the try statement: the on-data callbacks, then for a connection
\* that has just closed the queue is dropped and on-closed is called
poll_finish(c, l, got) ==
    LET l2 == [l EXCEPT !.callbacks = @ \o got, !.polled_closed = @ \/ c.closed]
        on_data == [i \in 1..Len(got) |-> "on_data"]
    IN  IF c.did_just_close
        THEN [c |-> [c EXCEPT !.pub_queue = <<>>],
              l |-> [l2 EXCEPT !.callbacks = Append(@, ON_CLOSED)],
              steps |-> Append(on_data, "on_closed")]
        ELSE [c |-> c, l |-> l2, steps |-> on_data]

\* what follows the try statement of poll, unless an exception has left it
poll_after(r) ==
    IF r.raised THEN [c |-> r.c, l |-> r.l, steps |-> r.steps, escaped |-> TRUE]
    ELSE LET f == poll_finish(r.c, r.l, r.got)
         IN  [c |-> f.c, l |-> f.l, steps |-> r.steps \o f.steps, escaped |-> FALSE]

\* poll() run without interruption: [c, l, steps, escaped], where steps
\* lists in order the calls poll made of _read and _write, each with its
\* outcome, and of the callbacks, and `escaped` tells whether poll was left
\* by an exception
poll(c, l, k, rend, nw, wend) ==
    LET c1 == poll_test(poll_reset(c))
    IN  IF ~c1.closed THEN poll_after(poll_try(c1, l, k, rend, nw, wend))
        ELSE poll_after([c |-> c1, l |-> l, got |-> <<>>, raised |-> FALSE,
                         steps |-> <<>>])

\* no poll has been traced
NewTrace == [polled |-> FALSE, closed |-> FALSE, was_closed |-> FALSE,
             t_open |-> TRUE, close_called |-> FALSE, steps |-> <<>>,
             escaped |-> FALSE]

----------------------------------------------------------------------------
(* ConnectionPoller.  `connections` is the working set, `adds` / `removes`  *)
(* the pending sets, `lock` the holder of __lock.  The poll thread is at    *)
(* `pc`: "idle" between cycles, "acquire" after it has read __update as     *)
(* true, "locked" inside `with self.__lock`, "iterate" in the for loop with *)
(* `todo` the connections not yet visited.  The other fields record what    *)
(* was asked of the poller: `registered` is the set of connections passed   *)
(* to add_connection and not since to remove_connection, `at_start` its     *)
(* value when the current cycle started, `changed` the connections a call   *)
(* was made for since then, `snapshot` the working set when the for loop    *)
(* began, and close_all_* the last close_all_connections() call.            *)

MaxConns == 2

Conns == 1..MaxConns

NewPoller ==
    [connections |-> {}, adds |-> {}, removes |-> {}, update |-> FALSE,
     lock |-> "free", pc |-> "idle", todo |-> {},
     registered |-> {}, at_start |-> {}, changed |-> {}, snapshot |-> {},
     close_all_done |-> FALSE, close_all_hit |-> {}, close_all_reg |-> {}]

\* the body of add_connection, inside the lock
add_connection(p, c) ==
    [p EXCEPT !.adds = @ \cup {c}, !.removes = @ \ {c}, !.update = TRUE]

\* the body of remove_connection, inside the lock
remove_connection(p, c) ==
    [p EXCEPT !.adds = @ \ {c},
              !.removes = IF c \in p.connections THEN @ \cup {c} ELSE @,
              !.update = TRUE]

\* the body of `with self.__lock` in ConnectionPoller.poll
apply_pending(p) ==
    [p EXCEPT !.connections = (@ \ p.removes) \cup p.adds,
              !.removes = {}, !.adds = {}, !.update = FALSE]

\* the first statement of ConnectionPoller.poll: `if self.__update:`
poll_start(p) ==
    IF p.update
    THEN [p EXCEPT !.pc = "acquire", !.at_start = p.registered, !.changed = {}]
    ELSE [p EXCEPT !.pc = "iterate", !.todo = p.connections, !.snapshot = p.connections,
                   !.at_start = p.registered, !.changed = {}]

\* size(), inside the lock
size(p) == Cardinality(p.connections) + Cardinality(p.adds) - Cardinality(p.removes)

\* the connections close_all_connections() calls close() on
close_all_connections(p) == p.connections

----------------------------------------------------------------------------
(* ConnectionPollerThread and the threads around one connection.  `driver`  *)
(* is the position of run(): "top" at the loop test, "call" before          *)
(* self.__pollable.poll(), "in_poll" inside it, "sleep" in time.sleep,      *)
(* "done" after the loop.  `after_stop` counts the poll calls begun since   *)
(* stop() was called.                                                       *)

MaxCycles == 3

MaxPending == 2

(* For one connection polled by one thread and closed by another: `poll`  *)
(* is the position of the polling thread in ConnectionIf.poll ("idle"       *)
(* outside it, "test" before the just-closed test, "guard" before `if not   *)
(* self.__closed`, "io" before the reads and writes, "finish" after the try *)
(* statement) with `got` its data_read; `closer` is the position of the     *)
(* other thread in close() ("idle", or "marked" between the assignment of   *)
(* __closed and _close()).  closed_at is where the polling thread was when  *)
(* close() marked the connection, close_returned whether a close() call has *)
(* returned, started_after_close whether the current poll began after that, *)
(* polls_after_close the number of polls that began after it and are over.  *)

NewThreads ==
    [driver |-> "top", shutdown |-> FALSE, after_stop |-> 0,
     poll |-> "idle", got |-> <<>>, closer |-> "idle", closed_at |-> "never",
     close_returned |-> FALSE, started_after_close |-> FALSE, polls_after_close |-> 0]

\* mutant: the loop test is `while True`
loop_test_always(t) == [t EXCEPT !.driver = "call"]

\* `while not self.__shutdown:`
loop_test(t) ==
    IF t.shutdown THEN [t EXCEPT !.driver = "done"] ELSE [t EXCEPT !.driver = "call"]


----------------------------------------------------------------------------
(* ConnectionListener.  A decoded datagram is a dict: a function from the   *)
(* keys it has to their values.  `pending` is the socket's queue of          *)
(* datagrams not yet received by the server.  The other fields record the    *)
(* last run of the poll timer: `before` the number of datagrams pending when *)
(* it started, `handled` the messages it passed to handle_message, `raised`  *)
(* the events raised, `logged` / `escaped` whether handle_message logged a   *)
(* warning / was left by an exception, `maps` the manager's two maps when    *)
(* the poll started.                                                         *)

Keys == {"state", "src", "dest"}

States == {"open", "close", "other"}

\* the dict with keys K decoded from a datagram of host `src` about `dest`
Decoded(K, state, src, dest) ==
    [k \in K |-> IF k = "state" THEN state ELSE IF k = "src" THEN src ELSE dest]

ListenerEvent(type, src, dest) == [type |-> type, src |-> src, dest |-> dest]

NewListener ==
    [pending |-> <<>>, polled |-> FALSE, before |-> 0, handled |-> <<>>,
     raised |-> <<>>, logged |-> FALSE, escaped |-> FALSE, maps |-> <<>>]

\* the try block of handle_message: the events raised and the exception, if
\* any, that ends it (msg[k] raises KeyError when k is missing, and the
\* arguments of raiseEvent are evaluated before the call)
handle_message_try(msg) ==
    LET KeyError == [events |-> <<>>, error |-> "KeyError"]
        event(type) ==
            IF "src" \notin DOMAIN msg \/ "dest" \notin DOMAIN msg THEN KeyError
            ELSE [events |-> <<ListenerEvent(type, msg["src"], msg["dest"])>>,
                  error |-> "none"]
    IN  IF "state" \notin DOMAIN msg THEN KeyError
        ELSE IF msg["state"] = "open" THEN event("UploadStarted")
        ELSE IF msg["state"] = "close" THEN event("UploadEnded")
        ELSE [events |-> <<>>, error |-> "none"]

\* mutant: src and dest change places
handle_message_swapped(msg) ==
    LET r == handle_message_try(msg)
    IN  [events |-> [i \in DOMAIN r.events |->
                        ListenerEvent(r.events[i].type, r.events[i].dest, r.events[i].src)],
         logged |-> r.error = "KeyError", escaped |-> FALSE]

\* mutant: there is no except clause
handle_message_noExcept(msg) ==
    LET r == handle_message_try(msg)
    IN  [events |-> r.events, logged |-> FALSE, escaped |-> r.error = "KeyError"]

\* ConnectionListener.handle_message: `except KeyError: log.warning(...)`
handle_message(msg) ==
    LET r == handle_message_try(msg)
    IN  [events |-> r.events, logged |-> r.error = "KeyError", escaped |-> FALSE]

\* ConnectionHandler.handle: json.loads of the datagram, then handle_message
handle(datagram) == handle_message(datagram)

\* UDPServer.handle_request as called by __poll: one request is received
\* and handled if one is pending within the timeout, none otherwise
handle_request(pending) ==
    IF pending = <<>> THEN [handled |-> <<>>, pending |-> pending]
    ELSE [handled |-> <<Head(pending)>>, pending |-> Tail(pending)]

----------------------------------------------------------------------------
(* The record of the event sequence.  active[k] counts the flow-open events *)
(* of key k that were routed (or found k already routed) and are not yet    *)
(* matched by a flow-close.  phase follows the shape of the sequence:       *)
(* "idle" before the first open, "opening" while only accepted opens have   *)
(* been seen, "closing" once matching closes follow them, "void" after      *)
(* anything else (a rejected install, an unmatched close, an open after a   *)
(* close, a change of the learned state).  installed / removed are the keys *)
(* the router installed / was asked to remove during such a sequence.       *)

AllKeys == IPs \X IPs

RunInit ==
    [active |-> [k \in AllKeys |-> 0], phase |-> "idle", installed |-> {}, removed |-> {}]

Voided(r) == [r EXCEPT !.phase = "void", !.installed = {}, !.removed = {}]

RunAfterOpen(r, key, st) ==
    LET routed == key \in DOMAIN st.up \cup DOMAIN st.down
        r1 == IF routed \/ r.active[key] > 0
              THEN [r EXCEPT !.active[key] = @ + 1] ELSE r
    IN  IF r.phase \in {"idle", "opening"} /\ routed
        THEN [r1 EXCEPT !.phase = "opening",
                        !.installed = @ \cup {Key(c.src, c.dst) : c \in
                              {st.calls[i] : i \in 1..Len(st.calls)}}]
        ELSE Voided(r1)

RunAfterClose(r, key, st) ==
    LET r1 == IF r.active[key] > 0 THEN [r EXCEPT !.active[key] = @ - 1] ELSE r
        rm == {Key(st.calls[i].src, st.calls[i].dst) :
                 i \in {j \in 1..Len(st.calls) : st.calls[j].op = "remove"}}
    IN  IF r.phase \in {"opening", "closing"} /\ r.active[key] > 0
        THEN [r1 EXCEPT !.phase = "closing", !.removed = @ \cup rm]
        ELSE Voided(r1)

RunAfterLearn(r) == IF r.phase = "idle" THEN r ELSE Voided(r)

----------------------------------------------------------------------------
(* Events *)

dumb_flow_mod(in_port, out_port) == Rule(0, in_port, 0, 0, 0, 0, <<out_port>>)

\* EqualDiamondRouter.__add: the control channel of switch dpid came up,
\* the connection has the ports `ports`
\* mutant: the controller of a reconnecting edge switch is kept
ConnectionUpStep_kept(dpid, ports) ==
    /\ dpid \in EdgeDpids
    /\ switch' = [switch EXCEPT ![dpid] =
                     try_set_default_route([@ EXCEPT !.connected = TRUE, !.ports = ports])]
    /\ run' = RunAfterLearn(run)
    /\ UNCHANGED <<dumb, managerVars, connVars, auxVars>>

ConnectionUpStep(dpid, ports) ==
    /\ IF dpid \in CoreDpids
       THEN /\ dumb' = [dumb EXCEPT ![dpid] =
                          FlowAdd(FlowAdd(@, dumb_flow_mod(1, 2)), dumb_flow_mod(2, 1))]
            /\ UNCHANGED switch
       ELSE IF dpid \in EdgeDpids
       THEN /\ switch' = [switch EXCEPT ![dpid] = SmartSwitchInit(ports)]
            /\ UNCHANGED dumb
       ELSE UNCHANGED <<switch, dumb>>
    /\ run' = RunAfterLearn(run)
    /\ UNCHANGED <<managerVars, connVars, auxVars>>

ConnectionUp(dpid, ports) == ConnectionUpStep(dpid, ports) /\ calls' = <<>>

\* SmartSwitchController.__packetIn on edge switch dpid
PacketInStep(dpid, parsed, port, mac, ip) ==
    /\ switch[dpid].connected
    /\ port \in switch[dpid].ports
    /\ switch' = [switch EXCEPT ![dpid] = packetIn(@, parsed, port, mac, ip)]
    /\ run' = RunAfterLearn(run)
    /\ UNCHANGED <<dumb, managerVars, connVars, auxVars>>

PacketIn(dpid, parsed, port, mac, ip) ==
    PacketInStep(dpid, parsed, port, mac, ip) /\ calls' = <<>>

\* SmartSwitchController.__portStatus: the connection's port set has
\* changed to `ports`
PortStatusStep(dpid, ports) ==
    /\ switch[dpid].connected
    /\ switch' = [switch EXCEPT ![dpid] = try_set_default_route([@ EXCEPT !.ports = ports])]
    /\ run' = RunAfterLearn(run)
    /\ UNCHANGED <<dumb, managerVars, connVars, auxVars>>

PortStatus(dpid, ports) == PortStatusStep(dpid, ports) /\ calls' = <<>>

\* The same three events of an edge switch with a record of the event kept
\* in `calls`: the event and its frame, the controller's state before it,
\* the MAC-rule messages it sent, and for each edge switch the source IP
\* addresses that packet-ins on local ports (port > 2) have carried since
\* the switch's control channel came up.
SeenSoFar == IF calls = <<>> THEN [d \in EdgeDpids |-> {}] ELSE calls[1].seen

SwitchEvent(op, dpid, parsed, port, mac, ip, mods, seen) ==
    [op |-> op, dpid |-> dpid, parsed |-> parsed, port |-> port, mac |-> mac, ip |-> ip,
     before |-> switch[dpid], mods |-> mods, seen |-> seen]

SwitchUp(dpid, ports) ==
    /\ ConnectionUpStep(dpid, ports)
    /\ calls' = <<SwitchEvent("up", dpid, FALSE, 0, 0, 0,
                              try_set_default_route_mods(
                                  [NoSwitch EXCEPT !.connected = TRUE, !.ports = ports]),
                              [SeenSoFar EXCEPT ![dpid] = {}])>>

SwitchPacketIn(dpid, parsed, port, mac, ip) ==
    /\ PacketInStep(dpid, parsed, port, mac, ip)
    /\ calls' = <<SwitchEvent("packet_in", dpid, parsed, port, mac, ip,
                              packetIn_mods(switch[dpid], parsed, port, mac, ip),
                              [SeenSoFar EXCEPT ![dpid] =
                                  IF ip # 0 /\ port > 2 THEN @ \cup {ip} ELSE @])>>

SwitchPortStatus(dpid, ports) ==
    /\ PortStatusStep(dpid, ports)
    /\ calls' = <<SwitchEvent("port_status", dpid, FALSE, 0, 0, 0,
                              try_set_default_route_mods([switch[dpid] EXCEPT !.ports = ports]),
                              SeenSoFar)>>

\* a direct call of add_route_up / add_route_down
RouterAddRoute(side, src, dest) ==
    LET r == router_add_route(switch, side, src, dest)
    IN  /\ switch' = r.sws
        /\ calls' = <<Call("add", side, src, dest, r)>>
        /\ UNCHANGED <<dumb, run, managerVars, connVars, auxVars>>

\* a direct call of remove_route_up / remove_route_down
RouterRemoveRoute(side, src, dest) ==
    LET r == router_remove_route(switch, side, src, dest)
    IN  /\ switch' = r.sws
        /\ calls' = <<Call("remove", side, src, dest, r)>>
        /\ UNCHANGED <<dumb, run, managerVars, connVars, auxVars>>

\* ConnectionManager.__connectionStarted on an UploadStarted event
UploadStarted(src, dest) ==
    /\ run.active[Key(src, dest)] < MaxCount
    /\ LET st == connectionStarted(up_connections, down_connections, switch, src, dest)
       IN  /\ up_connections' = st.up
           /\ down_connections' = st.down
           /\ switch' = st.sws
           /\ calls' = <<>>
           /\ run' = RunAfterOpen(run, Key(src, dest), st)
    /\ UNCHANGED <<dumb, connVars, auxVars>>

\* ConnectionManager.__connectionEnded on an UploadEnded event
UploadEnded(src, dest) ==
    /\ \E st \in connectionEnded(up_connections, down_connections, switch, src, dest) :
           /\ up_connections' = st.up
           /\ down_connections' = st.down
           /\ switch' = st.sws
           /\ calls' = <<>>
           /\ run' = RunAfterClose(run, Key(src, dest), st)
    /\ UNCHANGED <<dumb, connVars, auxVars>>

\* ConnectionIf.close()
Close(ok) ==
    /\ LET r == close(conn, clog, ok)
       IN  conn' = r.c /\ clog' = r.l
    /\ UNCHANGED <<routerVars, managerVars, calls, run, auxVars>>

\* ConnectionIf.send(data)
Send(data) ==
    /\ Len(clog.sent) < MaxSends
    /\ LET r == send(conn, clog, data)
       IN  conn' = r.c /\ clog' = r.l
    /\ UNCHANGED <<routerVars, managerVars, calls, run, auxVars>>

Fails(l) == Cardinality({i \in 1..Len(l.writes) : l.writes[i].res = "false"})

\* ConnectionIf.poll(); when `traced`, the state it started in and its
\* steps are recorded
PollStep(k, rend, nw, wend, traced) ==
    /\ \E r \in {poll(conn, clog, k, rend, nw, wend)} :
           /\ r.l.rx <= MaxInbound
           /\ Fails(r.l) <= MaxFails
           /\ conn' = r.c
           /\ clog' = r.l
           /\ trace' = IF traced
                       THEN [polled |-> TRUE, closed |-> conn.closed,
                             was_closed |-> conn.was_closed, t_open |-> conn.t_open,
                             close_called |-> clog.close_called, steps |-> r.steps,
                             escaped |-> r.escaped]
                       ELSE trace
    /\ UNCHANGED <<routerVars, managerVars, calls, run, poller, thread, listener>>

Poll(k, rend, nw, wend) == PollStep(k, rend, nw, wend, FALSE)

PollTraced(k, rend, nw, wend) == PollStep(k, rend, nw, wend, TRUE)

\* ConnectionPoller.add_connection(c), from any thread or from a callback
\* run by the poll thread: the caller takes the lock, which must be free
AddConnection(c) ==
    /\ poller.lock = "free"
    /\ poller' = [add_connection(poller, c) EXCEPT !.registered = @ \cup {c},
                                                   !.changed = @ \cup {c}]
    /\ UNCHANGED <<routerVars, managerVars, calls, run, connVars, thread, listener, trace>>

\* ConnectionPoller.remove_connection(c)
RemoveConnection(c) ==
    /\ poller.lock = "free"
    /\ poller' = [remove_connection(poller, c) EXCEPT !.registered = @ \ {c},
                                                      !.changed = @ \cup {c}]
    /\ UNCHANGED <<routerVars, managerVars, calls, run, connVars, thread, listener, trace>>

\* mutant: the lock is kept through the for loop
PollerApply_keepsLock ==
    /\ poller.pc = "locked"
    /\ LET p == apply_pending(poller)
       IN  poller' = [p EXCEPT !.pc = "iterate", !.todo = p.connections,
                               !.snapshot = p.connections]
    /\ UNCHANGED <<routerVars, managerVars, calls, run, connVars, thread, listener, trace>>

\* ConnectionPoller.poll: a cycle starts by reading __update without the lock
PollerStart ==
    /\ poller.pc = "idle"
    /\ poller' = poll_start(poller)
    /\ UNCHANGED <<routerVars, managerVars, calls, run, connVars, thread, listener, trace>>

\* `with self.__lock:` is entered
PollerAcquire ==
    /\ poller.pc = "acquire"
    /\ poller.lock = "free"
    /\ poller' = [poller EXCEPT !.pc = "locked", !.lock = "poll"]
    /\ UNCHANGED <<routerVars, managerVars, calls, run, connVars, thread, listener, trace>>

\* the pending sets are applied, the lock is released and the for loop begins
PollerApply ==
    /\ poller.pc = "locked"
    /\ LET p == apply_pending(poller)
       IN  poller' = [p EXCEPT !.pc = "iterate", !.lock = "free", !.todo = p.connections,
                               !.snapshot = p.connections]
    /\ UNCHANGED <<routerVars, managerVars, calls, run, connVars, thread, listener, trace>>

\* one pass of `for connection_if in self.__connections`
PollerVisit(c) ==
    /\ poller.pc = "iterate"
    /\ c \in poller.todo
    /\ poller' = [poller EXCEPT !.todo = @ \ {c}]
    /\ UNCHANGED <<routerVars, managerVars, calls, run, connVars, thread, listener, trace>>

\* the for loop is over
PollerEnd ==
    /\ poller.pc = "iterate"
    /\ poller.todo = {}
    /\ poller' = [poller EXCEPT !.pc = "idle"]
    /\ UNCHANGED <<routerVars, managerVars, calls, run, connVars, thread, listener, trace>>

\* ConnectionPoller.close_all_connections()
CloseAll ==
    /\ poller' = [poller EXCEPT !.close_all_done = TRUE,
                                !.close_all_hit = close_all_connections(poller),
                                !.close_all_reg = poller.registered]
    /\ UNCHANGED <<routerVars, managerVars, calls, run, connVars, thread, listener, trace>>

\* ConnectionPollerThread.stop()
DriverStop ==
    /\ thread' = [thread EXCEPT !.shutdown = TRUE]
    /\ UNCHANGED <<routerVars, managerVars, calls, run, connVars, poller, listener, trace>>

\* ConnectionPollerThread.run: the loop test
DriverTest ==
    /\ thread.driver = "top"
    /\ thread' = loop_test(thread)
    /\ UNCHANGED <<routerVars, managerVars, calls, run, connVars, poller, listener, trace>>

\* self.__pollable.poll() is called
DriverPoll ==
    /\ thread.driver = "call"
    /\ thread.after_stop < MaxCycles
    /\ poller.pc = "idle"
    /\ poller' = poll_start(poller)
    /\ thread' = [thread EXCEPT !.driver = "in_poll",
                                !.after_stop = IF thread.shutdown THEN @ + 1 ELSE @]
    /\ UNCHANGED <<routerVars, managerVars, calls, run, connVars, listener, trace>>

\* self.__pollable.poll() returns
DriverReturn ==
    /\ thread.driver = "in_poll"
    /\ poller.pc = "iterate"
    /\ poller.todo = {}
    /\ poller' = [poller EXCEPT !.pc = "idle"]
    /\ thread' = [thread EXCEPT !.driver = "sleep"]
    /\ UNCHANGED <<routerVars, managerVars, calls, run, connVars, listener, trace>>

\* time.sleep(self.__sleep_time) returns
DriverWake ==
    /\ thread.driver = "sleep"
    /\ thread' = [thread EXCEPT !.driver = "top"]
    /\ UNCHANGED <<routerVars, managerVars, calls, run, connVars, poller, listener, trace>>

\* close() in the other thread: `if not self.__closed: self.__closed = True`
CloserMark ==
    /\ thread.closer = "idle"
    /\ IF conn.closed
       THEN /\ thread' = [thread EXCEPT !.close_returned = TRUE]
            /\ clog' = [clog EXCEPT !.close_called = TRUE]
            /\ UNCHANGED conn
       ELSE /\ thread' = [thread EXCEPT !.closer = "marked", !.closed_at = thread.poll]
            /\ conn' = [conn EXCEPT !.closed = TRUE]
            /\ clog' = [clog EXCEPT !.close_called = TRUE]
    /\ UNCHANGED <<routerVars, managerVars, calls, run, poller, listener, trace>>

\* close() in the other thread: self._close(), which may raise
CloserShutdown(ok) ==
    /\ thread.closer = "marked"
    /\ conn' = [conn EXCEPT !.t_open = IF ok THEN FALSE ELSE @]
    /\ clog' = [clog EXCEPT !.shutdowns = @ + 1]
    /\ thread' = [thread EXCEPT !.closer = "idle", !.close_returned = TRUE]
    /\ UNCHANGED <<routerVars, managerVars, calls, run, poller, listener, trace>>

\* poll() in the polling thread, statement by statement
PollReset ==
    /\ thread.poll = "idle"
    /\ thread.polls_after_close < MaxCycles
    /\ conn' = poll_reset(conn)
    /\ thread' = [thread EXCEPT !.poll = "test", !.got = <<>>,
                                !.started_after_close = thread.close_returned]
    /\ UNCHANGED <<routerVars, managerVars, calls, run, clog, poller, listener, trace>>

PollTest ==
    /\ thread.poll = "test"
    /\ conn' = poll_test(conn)
    /\ thread' = [thread EXCEPT !.poll = "guard"]
    /\ UNCHANGED <<routerVars, managerVars, calls, run, clog, poller, listener, trace>>

PollGuard ==
    /\ thread.poll = "guard"
    /\ thread' = [thread EXCEPT !.poll = IF ~conn.closed THEN "io" ELSE "finish"]
    /\ UNCHANGED <<routerVars, managerVars, calls, run, connVars, poller, listener, trace>>

PollTry(k, rend, nw, wend) ==
    /\ thread.poll = "io"
    /\ \E r \in {poll_try(conn, clog, k, rend, nw, wend)} :
           /\ r.l.rx <= MaxInbound
           /\ Fails(r.l) <= MaxFails
           /\ conn' = r.c
           /\ clog' = r.l
           /\ thread' = [thread EXCEPT !.poll = "finish", !.got = r.got]
    /\ UNCHANGED <<routerVars, managerVars, calls, run, poller, listener, trace>>

PollFinish ==
    /\ thread.poll = "finish"
    /\ LET r == poll_finish(conn, clog, thread.got)
       IN  conn' = r.c /\ clog' = r.l
    /\ thread' = [thread EXCEPT !.poll = "idle", !.got = <<>>,
                                !.polls_after_close =
                                    IF thread.started_after_close THEN @ + 1 ELSE @]
    /\ UNCHANGED <<routerVars, managerVars, calls, run, poller, listener, trace>>

\* a datagram reaches the listener's socket
DatagramArrives(datagram) ==
    /\ Len(listener.pending) < MaxPending
    /\ listener' = [listener EXCEPT !.pending = Append(@, datagram)]
    /\ UNCHANGED <<routerVars, managerVars, calls, run, connVars, poller, thread, trace>>

\* raiseEvent: the ConnectionManager's handler of the event runs
Deliver(ev, up, down, sws) ==
    IF ev.type = "UploadStarted"
    THEN {connectionStarted(up, down, sws, ev.src, ev.dest)}
    ELSE connectionEnded(up, down, sws, ev.src, ev.dest)

\* ConnectionListener.__poll, run by the recurring timer: handle_request(),
\* the handler it dispatches to, and the manager's handlers of the events
ListenerPoll ==
    LET hr == handle_request(listener.pending)
        r == IF hr.handled = <<>>
             THEN [events |-> <<>>, logged |-> FALSE, escaped |-> FALSE]
             ELSE handle(hr.handled[1])
        polled(escaped) ==
            [pending |-> hr.pending, polled |-> TRUE, before |-> Len(listener.pending),
             handled |-> hr.handled, raised |-> r.events, logged |-> r.logged,
             escaped |-> escaped, maps |-> <<up_connections, down_connections>>]
    IN  IF r.events = <<>>
        THEN /\ listener' = polled(r.escaped)
             /\ UNCHANGED <<routerVars, managerVars, calls, run, connVars, poller, thread, trace>>
        ELSE /\ \E st \in Deliver(r.events[1], up_connections, down_connections, switch) :
                    /\ \A k \in DOMAIN st.up : st.up[k] <= MaxCount
                    /\ \A k \in DOMAIN st.down : st.down[k] <= MaxCount
                    /\ up_connections' = st.up
                    /\ down_connections' = st.down
                    /\ switch' = st.sws
                    /\ calls' = st.calls
                    /\ listener' = polled(r.escaped \/ st.raised)
             /\ UNCHANGED <<dumb, run, connVars, poller, thread, trace>>

----------------------------------------------------------------------------
(* Specifications *)

ConnInit == NewConnection(-1, -1)

Init ==
    /\ switch = [d \in EdgeDpids |-> NoSwitch]
    /\ dumb = [d \in CoreDpids |-> {}]
    /\ up_connections = NoMacs
    /\ down_connections = NoMacs
    /\ calls = <<>>
    /\ run = RunInit
    /\ conn = ConnInit
    /\ clog = NewLog
    /\ poller = NewPoller
    /\ thread = NewThreads
    /\ listener = NewListener
    /\ trace = NewTrace

\* The connection manager on top of the router.  The two edge switches
\* connect; hosts 1 and 2 are attached to switch 1 and the others to switch
\* 4, and frames with the address of host 2 are also seen on a host port of
\* switch 4; the listener raises flow-open and flow-close events.
SeenAt(d) == IF d = 1 THEN {1, 2} ELSE IPs \ {1}

Next ==
    \/ \E d \in EdgeDpids : ~switch[d].connected /\ ConnectionUp(d, SwitchPorts)
    \/ \E d \in EdgeDpids, h \in IPs : h \in SeenAt(d) /\ PacketIn(d, TRUE, 3, h, h)
    \/ \E src \in IPs, dest \in IPs : UploadStarted(src, dest)
    \/ \E src \in IPs, dest \in IPs : UploadEnded(src, dest)

Spec == Init /\ [][Next]_vars

\* The router alone: the edge switches connect and reconnect, hosts are seen
\* on a core-facing or a host-facing port of either edge switch, and routes
\* are requested directly.
RouterIPs == {1, 2}

NextRouter ==
    \/ \E d \in EdgeDpids : ConnectionUp(d, SwitchPorts)
    \/ \E d \in EdgeDpids, port \in {1, 3}, h \in RouterIPs : PacketIn(d, TRUE, port, h, h)
    \/ \E side \in {"up", "down"}, src \in RouterIPs, dest \in RouterIPs :
          RouterAddRoute(side, src, dest)
    \/ \E side \in {"up", "down"}, src \in RouterIPs, dest \in RouterIPs :
          RouterRemoveRoute(side, src, dest)

SpecRouter == Init /\ [][NextRouter]_vars

\* The edge switches alone.  The control channel of switch 1 comes up
\* (again) with or without port 2 present, port 2 comes or goes, and frames
\* of two hosts arrive on any of its ports, complete or not, with or without
\* an IPv4 header (ip = 0).  Switch 4 comes up with all its ports and sees
\* complete IPv4 frames of one host on its host port.
SwitchIPs == {0, 1}

NextSwitch ==
    \/ \E ports \in {{1, 3}, SwitchPorts} : SwitchUp(1, ports)
    \/ SwitchUp(4, SwitchPorts)
    \/ \E d \in EdgeDpids, ports \in {{1, 3}, SwitchPorts} : SwitchPortStatus(d, ports)
    \/ \E parsed \in BOOLEAN, port \in SwitchPorts, mac \in MACs, ip \in SwitchIPs :
          SwitchPacketIn(1, parsed, port, mac, ip)
    \/ SwitchPacketIn(4, TRUE, 3, 1, 1)

SpecSwitch == Init /\ [][NextSwitch]_vars

\* The connection manager while the edge switches connect and reconnect:
\* hosts 1 and 2 are attached to switch 1 and host 3 to switch 4, and no
\* address is seen on a host port of both.
ReconnectIPs == {1, 2, 3}

NextReconnect ==
    \/ \E d \in EdgeDpids : ConnectionUp(d, SwitchPorts)
    \/ \E h \in {1, 2} : PacketIn(1, TRUE, 3, h, h)
    \/ PacketIn(4, TRUE, 3, 3, 3)
    \/ \E src \in ReconnectIPs, dest \in ReconnectIPs : UploadStarted(src, dest)
    \/ \E src \in ReconnectIPs, dest \in ReconnectIPs : UploadEnded(src, dest)

SpecReconnect == Init /\ [][NextReconnect]_vars

\* One connection: it is constructed with some limits, then close(), send()
\* and poll() are called in any order, the transport answering as it may.
InitConn ==
    /\ switch = [d \in EdgeDpids |-> NoSwitch]
    /\ dumb = [d \in CoreDpids |-> {}]
    /\ up_connections = NoMacs
    /\ down_connections = NoMacs
    /\ calls = <<>>
    /\ run = RunInit
    /\ \E r \in Limits, w \in Limits : conn = NewConnection(r, w)
    /\ clog = NewLog
    /\ poller = NewPoller
    /\ thread = NewThreads
    /\ listener = NewListener
    /\ trace = NewTrace

NextConn ==
    \/ \E ok \in BOOLEAN : Close(ok)
    \/ \E d \in Msgs : Send(d)
    \/ \E k \in 0..MaxInbound, rend \in {"none", "empty", "raise"},
          nw \in 0..MaxSends, wend \in {"ok", "false", "raise"} :
          Poll(k, rend, nw, wend)

SpecConn == InitConn /\ [][NextConn]_vars

\* One connection with read and write limits from 0 to 2; every poll is
\* recorded with the state it started in.  The transport's writes either
\* all succeed or the one after `nw` successes fails.
IOLimits == {0, 1, 2}

InitIO ==
    /\ switch = [d \in EdgeDpids |-> NoSwitch]
    /\ dumb = [d \in CoreDpids |-> {}]
    /\ up_connections = NoMacs
    /\ down_connections = NoMacs
    /\ calls = <<>>
    /\ run = RunInit
    /\ \E r \in IOLimits, w \in IOLimits : conn = NewConnection(r, w)
    /\ clog = NewLog
    /\ poller = NewPoller
    /\ thread = NewThreads
    /\ listener = NewListener
    /\ trace = NewTrace

NextIO ==
    \/ \E ok \in BOOLEAN : Close(ok)
    \/ \E d \in Msgs : Send(d)
    \/ \E k \in 0..MaxInbound, rend \in {"none", "empty", "raise"} :
          \/ PollTraced(k, rend, MaxSends, "ok")
          \/ \E nw \in 0..(MaxSends - 1), wend \in {"false", "raise"} :
                 PollTraced(k, rend, nw, wend)

SpecIO == InitIO /\ [][NextIO]_vars

\* One poller: the poll thread runs cycle after cycle while connections
\* are added, removed and closed by other threads and by callbacks.
NextPoller ==
    \/ \E c \in Conns : AddConnection(c)
    \/ \E c \in Conns : RemoveConnection(c)
    \/ PollerStart
    \/ PollerAcquire
    \/ PollerApply
    \/ \E c \in Conns : PollerVisit(c)
    \/ PollerEnd
    \/ CloseAll

SpecPoller == Init /\ [][NextPoller]_vars

\* The driver thread polling one poller, with connections added and
\* removed meanwhile, and stop() called at any moment.  Every step of the
\* driver thread is taken eventually (the thread is scheduled, every poll
\* call returns and the sleep ends).
DriverSteps ==
    \/ DriverTest
    \/ DriverPoll
    \/ PollerAcquire
    \/ PollerApply
    \/ \E c \in Conns : PollerVisit(c)
    \/ DriverReturn
    \/ DriverWake

NextDriver ==
    \/ DriverSteps
    \/ DriverStop
    \/ \E c \in Conns : AddConnection(c)
    \/ \E c \in Conns : RemoveConnection(c)

SpecDriver == Init /\ [][NextDriver]_vars /\ WF_vars(DriverSteps)

\* One connection polled by one thread, statement by statement, while
\* another thread calls close() and messages are queued.
NextRace ==
    \/ CloserMark
    \/ \E ok \in BOOLEAN : CloserShutdown(ok)
    \/ \E d \in Msgs : Send(d)
    \/ PollReset
    \/ PollTest
    \/ PollGuard
    \/ \E k \in 0..MaxInbound, rend \in {"none", "empty", "raise"},
          nw \in 0..MaxSends, wend \in {"ok", "false", "raise"} :
          PollTry(k, rend, nw, wend)
    \/ PollFinish

SpecRace == InitConn /\ [][NextRace]_vars

\* The listener in front of the connection manager: the edge switches
\* connect, host 1 is seen at switch 1 and host 3 at switch 4, datagrams of
\* host 1 about host 3 arrive with any of the keys missing, and the timer
\* runs the poll.
Datagrams == {Decoded(K, state, 1, 3) : K \in SUBSET Keys, state \in States}

NextListener ==
    \/ \E d \in EdgeDpids : ~switch[d].connected /\ ConnectionUp(d, SwitchPorts)
    \/ PacketIn(1, TRUE, 3, 1, 1)
    \/ PacketIn(4, TRUE, 3, 3, 3)
    \/ \E datagram \in Datagrams : DatagramArrives(datagram)
    \/ ListenerPoll

SpecListener == Init /\ [][NextListener]_vars

----------------------------------------------------------------------------
(* Properties of the connection manager *)

Tracked == DOMAIN up_connections \cup DOMAIN down_connections

Abs(n) == IF n < 0 THEN 0 - n ELSE n

Max(a, b) == IF a < b THEN b ELSE a

\* the flow key of an unordered pair of addresses
Canon(a, b) == <<Min(a, b), Max(a, b)>>

RouteRules(sw) == {q \in sw.table : q.priority = PRIORITY_ROUTE_CONNECTION}

\* the outcome of a flow-open event in the current state
Started(src, dest) ==
    connectionStarted(up_connections, down_connections, switch, src, dest)

\* C1: no flow key is in the up map and in the down map at once, in every
\* state reachable by flow-open and flow-close events with their rebalancing.
T_C1_OneMapAtMost == DOMAIN up_connections \cap DOMAIN down_connections = {}

\* C1 case: a rebalancing has happened (a flow that is still open is no
\* longer tracked) and the up map is in use.
W_C1_AfterRebalance ==
    /\ up_connections # NoMacs
    /\ \E k \in AllKeys : run.active[k] > 0 /\ k \notin Tracked

\* C2 as claimed: the rebalancing of a flow-close moves keys between the
\* maps, so after it the maps track as many keys as after the count of the
\* closed flow was lowered.
CE_C2_RebalanceKeepsKeys ==
    [][\A src \in IPs, dest \in IPs :
         UploadEnded(src, dest) =>
           LET c == connectionEndedCount(up_connections, down_connections, switch, src, dest)
           IN  Size(up_connections') + Size(down_connections') = Size(c.up) + Size(c.down)]_vars

\* C3 as claimed: a flow key that is active (routed, and opened more often
\* than closed) is in exactly one of the two maps after every event.
CE_C3_ActiveIsTracked ==
    \A k \in AllKeys :
        run.active[k] > 0 =>
            (k \in DOMAIN up_connections) # (k \in DOMAIN down_connections)

\* C4 as claimed: after every event the numbers of keys in the up map and
\* in the down map differ by at most 1.
CE_C4_Balanced == Abs(Size(up_connections) - Size(down_connections)) <= 1

\* C8 as claimed: after flow-opens that were all accepted, followed by one
\* matching flow-close per open, both maps are empty, remove_route was
\* called for every installed flow and no edge switch holds a route rule.
CE_C8_AllClosedLeavesNothing ==
    (run.phase = "closing" /\ \A k \in AllKeys : run.active[k] = 0) =>
        /\ up_connections = NoMacs
        /\ down_connections = NoMacs
        /\ run.installed \subseteq run.removed
        /\ \A d \in EdgeDpids : RouteRules(switch[d]) = {}

\* C9: a flow-open for a key tracked in neither map makes one router call,
\* add_route_down if |down| < |up| and add_route_up otherwise; the key
\* enters that side's map with count 1 iff the call returned true, and
\* otherwise both maps are unchanged.
T_C9_OpenUntracked ==
    \A src \in IPs, dest \in IPs :
        Canon(src, dest) \notin Tracked =>
            LET st == Started(src, dest)
                side == IF Size(down_connections) < Size(up_connections)
                        THEN "down" ELSE "up"
                added(m) == [k \in DOMAIN m \cup {Canon(src, dest)} |->
                               IF k = Canon(src, dest) THEN 1 ELSE m[k]]
            IN  /\ Len(st.calls) = 1
                /\ st.calls[1].op = "add"
                /\ st.calls[1].side = side
                /\ {st.calls[1].src, st.calls[1].dst} = {src, dest}
                /\ IF st.calls[1].ret = "true"
                   THEN IF side = "down"
                        THEN st.down = added(down_connections) /\ st.up = up_connections
                        ELSE st.up = added(up_connections) /\ st.down = down_connections
                   ELSE st.up = up_connections /\ st.down = down_connections

\* C9 case: flows were routed on both sides (the second one down, the third
\* up on a tie) and the router rejects some other flow in this state.
W_C9_BothSidesAndReject ==
    /\ Size(up_connections) = 2
    /\ Size(down_connections) = 1
    /\ \E src \in IPs, dest \in IPs :
          /\ Canon(src, dest) \notin Tracked
          /\ Started(src, dest).calls[1].ret = "false"

\* C10: a flow-open for a tracked key, given in either order, adds 1 to the
\* count of that key in the map that holds it, makes no router call and
\* changes nothing else.
T_C10_OpenTracked ==
    \A src \in IPs, dest \in IPs :
        LET k == Canon(src, dest)
            st == Started(src, dest)
        IN  /\ k \in DOMAIN up_connections =>
                  /\ st.up = [up_connections EXCEPT ![k] = @ + 1]
                  /\ st.down = down_connections
                  /\ st.calls = <<>>
                  /\ st.sws = switch
            /\ k \in DOMAIN down_connections =>
                  /\ st.down = [down_connections EXCEPT ![k] = @ + 1]
                  /\ st.up = up_connections
                  /\ st.calls = <<>>
                  /\ st.sws = switch

\* C10 case: a key has been opened twice, once in each order of its
\* addresses being possible, and is counted 2 on each side.
W_C10_CountedTwice ==
    /\ \E k \in DOMAIN up_connections : up_connections[k] = 2
    /\ \E k \in DOMAIN down_connections : down_connections[k] = 2

\* the remove_route calls made for the pair {src, dest} in a handler outcome
RemoveCalls(st, src, dest) ==
    {i \in 1..Len(st.calls) :
        st.calls[i].op = "remove" /\ {st.calls[i].src, st.calls[i].dst} = {src, dest}}

\* the outcomes of a flow-close event in the current state
Ended(src, dest) ==
    connectionEnded(up_connections, down_connections, switch, src, dest)

\* C11 as claimed: a flow-close for a tracked key lowers its count by 1;
\* the key is deleted from its map, and remove_route of that side is called
\* once for it, if and only if the count reached zero; every stored count
\* is positive.
CE_C11_CloseTracked ==
    /\ \A k \in DOMAIN up_connections : up_connections[k] > 0
    /\ \A k \in DOMAIN down_connections : down_connections[k] > 0
    /\ \A src \in IPs, dest \in IPs : \A st \in Ended(src, dest) :
          LET k == Canon(src, dest)
              side == IF k \in DOMAIN up_connections THEN "up" ELSE "down"
              before == IF side = "up" THEN up_connections ELSE down_connections
              after == IF side = "up" THEN st.up ELSE st.down
          IN  k \in Tracked =>
                IF before[k] = 1
                THEN /\ k \notin DOMAIN st.up \cup DOMAIN st.down
                     /\ Cardinality(RemoveCalls(st, src, dest)) = 1
                     /\ \A i \in RemoveCalls(st, src, dest) : st.calls[i].side = side
                ELSE /\ k \in DOMAIN after
                     /\ after[k] = before[k] - 1
                     /\ RemoveCalls(st, src, dest) = {}


\* C12 as claimed: a flow-close for a key in neither map changes neither
\* map, makes no router call and raises no error.
CE_C12_CloseUntracked ==
    \A src \in IPs, dest \in IPs : \A st \in Ended(src, dest) :
        Canon(src, dest) \notin Tracked =>
            /\ st.up = up_connections
            /\ st.down = down_connections
            /\ st.calls = <<>>
            /\ ~st.raised

----------------------------------------------------------------------------
(* Properties of the router *)

LearnedBy(ip) == {d \in EdgeDpids : has_learned(switch[d], ip)}

\* C5 as claimed: add_route_up / add_route_down return true, or send a rule
\* install, only when each address is learned by exactly one edge switch
\* and the two by different ones.
CE_C5_AddOnlyWhenValid ==
    \A i \in 1..Len(calls) :
        (calls[i].op = "add" /\ (calls[i].ret = "true" \/ calls[i].msgs # <<>>)) =>
            /\ Cardinality(LearnedBy(calls[i].src)) = 1
            /\ Cardinality(LearnedBy(calls[i].dst)) = 1
            /\ LearnedBy(calls[i].src) # LearnedBy(calls[i].dst)

\* a route request for this pair is not valid: an edge switch is not
\* connected, an address is learned by neither edge switch, or some edge
\* switch has learned both addresses
Invalid(src, dest) ==
    \/ \E d \in EdgeDpids : ~switch[d].connected
    \/ LearnedBy(src) = {}
    \/ LearnedBy(dest) = {}
    \/ LearnedBy(src) \cap LearnedBy(dest) # {}

\* C15 as claimed: a route request that is not valid returns false from
\* add_route_up / add_route_down and sends no message to any switch, for
\* add and for remove alike.
CE_C15_InvalidSendsNothing ==
    \A side \in {"up", "down"}, src \in RouterIPs, dest \in RouterIPs :
        Invalid(src, dest) =>
            /\ router_add_route(switch, side, src, dest) =
                  [ret |-> "false", sws |-> switch, msgs |-> <<>>]
            /\ router_remove_route(switch, side, src, dest) =
                  [ret |-> "none", sws |-> switch, msgs |-> <<>>]

\* the rule a route of this side for the pair {a, b} is on edge switch d:
\* from the address d has learned to the other one
ExpectedRoute(d, side, a, b) ==
    LET local == IF a \in switch[d].learned_ips THEN a ELSE b
        other == IF a \in switch[d].learned_ips THEN b ELSE a
        port == IF side = "up" THEN (IF d = 1 THEN 1 ELSE 2)
                ELSE (IF d = 1 THEN 2 ELSE 1)
    IN  [priority |-> PRIORITY_ROUTE_CONNECTION, in_port |-> 0, dl_src |-> 0, dl_dst |-> 0,
         nw_src |-> local, nw_dst |-> other, actions |-> <<port>>]

\* C16: an add_route_up / add_route_down that returned true has sent one
\* rule install to each edge switch, out port 1 on switch 1 and 2 on switch
\* 4 for up and the mirror for down, matching traffic from the address the
\* switch has learned to the other address; the same two installs result
\* from the addresses passed in the other order.
T_C16_InstallsBothEdges ==
    \A i \in 1..Len(calls) :
        (calls[i].op = "add" /\ calls[i].ret = "true") =>
            LET c == calls[i]
            IN  /\ c.msgs = <<[dpid |-> 1, cmd |-> "add",
                               rule |-> ExpectedRoute(1, c.side, c.src, c.dst)],
                              [dpid |-> 4, cmd |-> "add",
                               rule |-> ExpectedRoute(4, c.side, c.src, c.dst)]>>
                /\ \A d \in EdgeDpids :
                      /\ Cardinality({c.src, c.dst} \cap switch[d].learned_ips) = 1
                      /\ ExpectedRoute(d, c.side, c.src, c.dst) \in switch[d].table
                /\ router_add_route(switch, c.side, c.dst, c.src).msgs = c.msgs

\* C16 case: add_route_down returned true for a source that switch 4 has
\* learned and a destination that switch 1 has learned.
W_C16_DownReversed ==
    /\ Len(calls) = 1
    /\ calls[1].op = "add"
    /\ calls[1].side = "down"
    /\ calls[1].ret = "true"
    /\ calls[1].src \in switch[4].learned_ips
    /\ calls[1].dst \in switch[1].learned_ips

\* C17 as claimed: in every call the router makes to add_route or
\* remove_route of an edge switch exactly one of the two addresses is
\* learned by that switch: no assertion fails, and an add installs on both
\* edge switches or on none.
CE_C17_AssertionsHold ==
    \A i \in 1..Len(calls) :
        /\ calls[i].ret # "raise"
        /\ Len(calls[i].msgs) \in {0, 2}

\* C18: a packet-in whose source MAC is already in the MAC-to-port map
\* leaves the map and the flow table as they were and sends no rule
\* message, whatever port the frame arrived on.
T_C18_KnownMacNoOp ==
    \A i \in 1..Len(calls) :
        (calls[i].op = "packet_in" /\ calls[i].mac \in DOMAIN calls[i].before.mac_to_port) =>
            /\ switch[calls[i].dpid].mac_to_port = calls[i].before.mac_to_port
            /\ switch[calls[i].dpid].table = calls[i].before.table
            /\ calls[i].mods = <<>>

\* C18 case: a complete IPv4 frame of a MAC recorded on the host port has
\* arrived on a core-facing port.
W_C18_KnownMacOtherPort ==
    /\ Len(calls) = 1
    /\ calls[1].op = "packet_in"
    /\ calls[1].parsed
    /\ calls[1].ip # 0
    /\ calls[1].port = 1
    /\ calls[1].mac \in DOMAIN calls[1].before.mac_to_port
    /\ calls[1].before.mac_to_port[calls[1].mac] = 3

\* C19 as claimed: after a packet-in of a complete frame whose source MAC
\* the switch had not seen, the MAC is recorded and its two MAC rules were
\* sent, with or without an IPv4 header in the frame.
CE_C19_UnseenMacLearned ==
    \A i \in 1..Len(calls) :
        (/\ calls[i].op = "packet_in"
         /\ calls[i].parsed
         /\ calls[i].mac \notin DOMAIN calls[i].before.mac_to_port) =>
            /\ calls[i].mac \in DOMAIN switch[calls[i].dpid].mac_to_port
            /\ Len(calls[i].mods) = 2

\* C20: every address an edge switch reports as learned was the source IP
\* of a packet-in on a local port (port > 2) of that switch since its
\* control channel came up; a packet-in on port 1 or 2 leaves the learned
\* set as it was.
T_C20_LearnedOnlyLocal ==
    /\ \A d \in EdgeDpids, ip \in SwitchIPs \ {0} :
          has_learned(switch[d], ip) => ip \in SeenSoFar[d]
    /\ \A i \in 1..Len(calls) :
          (calls[i].op = "packet_in" /\ calls[i].port <= 2) =>
              switch[calls[i].dpid].learned_ips = calls[i].before.learned_ips

\* C20 case: a complete IPv4 frame has arrived on port 2 of a switch and
\* its address is not learned there, while the other switch has learned it.
W_C20_CorePortNotLearned ==
    /\ Len(calls) = 1
    /\ calls[1].op = "packet_in"
    /\ calls[1].parsed
    /\ calls[1].port = 2
    /\ calls[1].ip # 0
    /\ ~has_learned(switch[calls[1].dpid], calls[1].ip)
    /\ \E d \in EdgeDpids : has_learned(switch[d], calls[1].ip)

\* the default rule set is in place on a switch
DefaultsInstalled(sw) ==
    /\ {flood_and_forward_local_mod, flood_and_forward_other_mod(1),
        flood_and_forward_other_mod(2)} \subseteq sw.table
    /\ {1, 2} \subseteq sw.no_flood

\* C21: once the default-installed flag is true, a port-status event sends
\* none of the clear-table, no-flood and default flow messages and leaves
\* the flag, the flow table and the no-flood ports as they were; the flag
\* is true only with the default rule set sent on this channel.
T_C21_DefaultsOnce ==
    \A i \in 1..Len(calls) :
        (calls[i].op = "port_status" /\ calls[i].before.default_route_is_setup) =>
            /\ calls[i].mods = <<>>
            /\ switch[calls[i].dpid].default_route_is_setup
            /\ switch[calls[i].dpid].table = calls[i].before.table
            /\ switch[calls[i].dpid].no_flood = calls[i].before.no_flood

\* C21 case: a port-status event has arrived at a switch whose defaults
\* were installed and which has learned a MAC since.
W_C21_PortStatusAfterInstall ==
    /\ Len(calls) = 1
    /\ calls[1].op = "port_status"
    /\ calls[1].before.default_route_is_setup
    /\ calls[1].before.mac_to_port # NoMacs

\* C22: a connect or port-status event that finds the flag false and port
\* 1 or 2 missing leaves the switch connected with the flag false, having
\* tried (the clear-table message was sent); a port-status event that finds
\* the flag false and both ports present sends the six messages of the
\* default rule set, after which the rules are in place and the flag is true.
T_C22_RetryUntilInstalled ==
    \A i \in 1..Len(calls) :
        LET sw == switch[calls[i].dpid]
            tried == calls[i].op = "up" \/
                     (calls[i].op = "port_status" /\ ~calls[i].before.default_route_is_setup)
        IN  tried =>
              /\ sw.connected
              /\ calls[i].mods # <<>>
              /\ calls[i].mods[1] = "clear_table_mod"
              /\ IF {1, 2} \subseteq sw.ports
                 THEN /\ sw.default_route_is_setup
                      /\ Len(calls[i].mods) = 6
                      /\ DefaultsInstalled(sw)
                 ELSE /\ ~sw.default_route_is_setup
                      /\ Len(calls[i].mods) < 6
                      /\ ~DefaultsInstalled(sw)

\* C22 case: the installation had failed for a missing port, and the
\* port-status event at which both ports exist has installed the defaults.
W_C22_InstalledOnRetry ==
    /\ Len(calls) = 1
    /\ calls[1].op = "port_status"
    /\ calls[1].before.connected
    /\ ~calls[1].before.default_route_is_setup
    /\ switch[calls[1].dpid].default_route_is_setup

\* C23: when the control channel of an edge switch comes up, its controller
\* has an empty MAC map and an empty learned-IP set and installs the
\* defaults afresh (the flag of the previous channel is not consulted), and
\* route validation fails for every pair of addresses.
T_C23_ReconnectForgets ==
    \A i \in 1..Len(calls) :
        calls[i].op = "up" =>
            LET sw == switch[calls[i].dpid]
            IN  /\ sw.mac_to_port = NoMacs
                /\ sw.learned_ips = {}
                /\ calls[i].mods # <<>>
                /\ sw.default_route_is_setup = ({1, 2} \subseteq sw.ports)
                /\ \A q \in sw.table : q.priority < PRIORITY_SEND_FROM_MAC
                /\ \A src \in SwitchIPs \ {0}, dest \in SwitchIPs \ {0} :
                      ~route_should_be_established(switch, src, dest)

\* C23 case: the channel of a switch that had learned a MAC and an IP
\* address and had its defaults installed has come up again without port 2.
W_C23_ReconnectedAfterLearning ==
    /\ Len(calls) = 1
    /\ calls[1].op = "up"
    /\ calls[1].before.learned_ips # {}
    /\ calls[1].before.mac_to_port # NoMacs
    /\ calls[1].before.default_route_is_setup
    /\ ~switch[calls[1].dpid].default_route_is_setup

----------------------------------------------------------------------------
(* Properties of the connection *)

ClosedCallbacks ==
    Cardinality({i \in 1..Len(clog.callbacks) : clog.callbacks[i] = ON_CLOSED})

\* C6: the on-closed callback is invoked at most once, and exactly once as
\* soon as a poll has run on the closed connection, whatever close(), send()
\* and poll() calls are made.
T_C6_ClosedOnce ==
    /\ ClosedCallbacks <= 1
    /\ clog.polled_closed => ClosedCallbacks = 1
    /\ ClosedCallbacks = 1 => conn.closed

\* C6 case: the callback has run, and a later poll of the closed connection
\* has run after it.
W_C6_PolledAgain ==
    /\ ClosedCallbacks = 1
    /\ conn.was_closed
    /\ ~conn.did_just_close
    /\ clog.shutdowns = 1

OkBefore(i) == Cardinality({j \in 1..(i - 1) : clog.writes[j].res = "ok"})

\* C7: every call of the transport write carries the oldest message passed
\* to send() that has not yet been written successfully: messages are
\* written in send order, a failed write is retried first, none is skipped
\* and none is written again.
T_C7_WriteOrder ==
    \A i \in 1..Len(clog.writes) :
        /\ OkBefore(i) < Len(clog.sent)
        /\ clog.writes[i].msg = clog.sent[OkBefore(i) + 1]

\* C7 case: a write was answered false, the same message was written in a
\* later call and a different message after it.
W_C7_RetriedThenNext ==
    \E i \in 1..Len(clog.writes) :
        /\ i + 2 <= Len(clog.writes)
        /\ clog.writes[i].res = "false"
        /\ clog.writes[i + 1].res = "ok"
        /\ clog.writes[i + 2].res = "ok"
        /\ clog.writes[i + 2].msg # clog.writes[i + 1].msg

\* C13: send(data) on a closed connection (closed by close() or by a
\* failure of the transport seen in poll) raises the closed error and leaves
\* the queue and the buffer as they were; no later poll writes anything.
T_C13_SendOnClosed ==
    conn.closed =>
        \A data \in Msgs :
            LET r == send(conn, clog, data)
            IN  /\ r.raised
                /\ r.c = conn
                /\ r.l.sent = clog.sent
                /\ \A nw \in 0..MaxSends, wend \in {"ok", "false", "raise"} :
                      poll(r.c, r.l, 0, "none", nw, wend).l.writes = clog.writes

\* C13 case: the transport failed in a poll (close() was never called),
\* messages were waiting, and a send() was refused afterwards.
W_C13_RefusedAfterFailure ==
    /\ conn.closed
    /\ clog.shutdowns = 0
    /\ clog.refused
    /\ Len(clog.sent) > Len(clog.writes)

\* C14 as claimed: once close() has been called on an instance, the
\* instance is closed and the transport shutdown has been performed exactly
\* once, however many close() calls were made.
CE_C14_CloseShutsDownOnce ==
    clog.close_called => (conn.closed /\ clog.shutdowns = 1)

----------------------------------------------------------------------------
(* Properties of the poller *)

\* C24: add_connection and remove_connection change only the pending sets;
\* the working set is the one the for loop began with for as long as the
\* loop runs, and it changes only under the lock; the lock is free while
\* the loop (and so any callback) runs; in the loop a connection for which
\* no call was made since the cycle started is in the working set exactly
\* if it was registered when the cycle started (the last of add / remove
\* having won); and with nothing pending the working set is the registered
\* set.
T_C24_PendingAppliedAtCycleStart ==
    /\ \A c \in Conns :
          /\ add_connection(poller, c).connections = poller.connections
          /\ remove_connection(poller, c).connections = poller.connections
    /\ poller.pc = "iterate" =>
          /\ poller.connections = poller.snapshot
          /\ poller.lock = "free"
          /\ \A c \in Conns \ poller.changed :
                (c \in poller.connections) = (c \in poller.at_start)
    /\ (~poller.update /\ poller.pc # "locked") => poller.connections = poller.registered

\* C24 case: during the for loop over two connections, one visited and one
\* not, a connection has been removed and the other is pending again after
\* remove then add.
W_C24_CallsDuringCycle ==
    /\ poller.pc = "iterate"
    /\ poller.connections = {1, 2}
    /\ poller.todo = {2}
    /\ poller.removes = {1}
    /\ poller.adds = {2}

\* C26 as claimed: close_all_connections() calls close() on every
\* connection registered when it is called, one registered since the last
\* poll cycle included.
CE_C26_CloseAllRegistered ==
    poller.close_all_done => poller.close_all_hit = poller.close_all_reg

\* C27: after stop() at most one more poll call is begun, a poll call in
\* progress is never cut short (the loop is left only from its test), and
\* the run loop exits once stop() has been called.
T_C27_StopTerminates ==
    /\ [](thread.after_stop <= 1)
    /\ [](thread.driver = "done" => (thread.shutdown /\ poller.pc = "idle"))
    /\ (thread.shutdown ~> thread.driver = "done")

\* C27 case: stop() came between the loop test and the poll call, one more
\* cycle was run, over a connection, and the loop has exited.
W_C27_OneMoreCycle ==
    /\ thread.driver = "done"
    /\ thread.after_stop = 1
    /\ poller.connections # {}

\* C25: with close() called by another thread at any point of a poll, the
\* on-closed callback is invoked at most once, and it has been invoked once
\* a poll that began after close() returned is over.
T_C25_CloseDuringPoll ==
    /\ ClosedCallbacks <= 1
    /\ thread.polls_after_close >= 1 => ClosedCallbacks = 1

\* C25 case: close() marked the connection after the poll's just-closed
\* test and before its reads and writes; the callback came in the next poll.
W_C25_ClosedAfterTest ==
    /\ thread.closed_at = "guard"
    /\ thread.polls_after_close = 1
    /\ ClosedCallbacks = 1

----------------------------------------------------------------------------
(* Properties of the connection listener *)

Complete(msg) == Keys \subseteq DOMAIN msg

\* C28: a message that has the keys state, src and dest raises exactly one
\* flow-open event when its state is "open" and exactly one flow-close event
\* when it is "close", carrying the message's src and dest; with any other
\* state it raises no event.
T_C28_EventPerMessage ==
    \A i \in DOMAIN listener.handled :
        LET msg == listener.handled[i]
        IN  Complete(msg) =>
              listener.raised =
                 IF msg["state"] = "open"
                 THEN <<ListenerEvent("UploadStarted", msg["src"], msg["dest"])>>
                 ELSE IF msg["state"] = "close"
                 THEN <<ListenerEvent("UploadEnded", msg["src"], msg["dest"])>>
                 ELSE <<>>

W_C28_OpenRaised ==
    /\ listener.handled # <<>>
    /\ Complete(listener.handled[1])
    /\ listener.handled[1]["state"] = "open"
    /\ listener.raised = <<ListenerEvent("UploadStarted", 1, 3)>>
    /\ <<1, 3>> \in DOMAIN up_connections \cup DOMAIN down_connections

\* C29: a message that lacks one of the keys state, src, dest raises no
\* event, no exception leaves handle_message, and the manager's two maps are
\* what they were before the message.
T_C29_MalformedDropped ==
    \A i \in DOMAIN listener.handled :
        ~Complete(listener.handled[i]) =>
            /\ listener.raised = <<>>
            /\ ~listener.escaped
            /\ listener.maps = <<up_connections, down_connections>>

W_C29_OpenWithoutDest ==
    /\ listener.handled # <<>>
    /\ DOMAIN listener.handled[1] = {"state", "src"}
    /\ listener.handled[1]["state"] = "open"
    /\ listener.logged
    /\ DOMAIN up_connections \cup DOMAIN down_connections # {}

\* C30: when a poll of the listener returns, every datagram that was pending
\* when it started has been handled.
CE_C30_PollDrains ==
    listener.polled => Len(listener.handled) = listener.before

----------------------------------------------------------------------------
(* Properties of one poll of the connection *)

Reads == {"read_ok", "read_none", "read_empty", "read_raise"}
Writes == {"write_ok", "write_false", "write_raise"}

\* the steps of the last poll that are in S, in order
StepsIn(S) == SelectSeq(trace.steps, LAMBDA x : x \in S)

\* every step but the last is `ok`
StopsAtFirstNot(q, ok) == \A i \in 1..(Len(q) - 1) : q[i] = ok

\* C31: a poll of a connection with limits max_reads = R and max_writes = W
\* makes at most R calls of _read and at most W calls of _write; no read
\* follows a failed or empty read and no write follows a write that did not
\* succeed.
CE_C31_AttemptsWithinLimits ==
    trace.polled =>
        /\ Len(StepsIn(Reads)) <= conn.rcv_reads
        /\ Len(StepsIn(Writes)) <= conn.max_writes
        /\ StopsAtFirstNot(StepsIn(Reads), "read_ok")
        /\ StopsAtFirstNot(StepsIn(Writes), "write_ok")

\* C32: the steps of a poll are its reads and writes, then one on-data
\* callback per read that returned data, then on-closed if the connection
\* closed in that poll; over the life of the connection the on-data
\* callbacks carry the chunks in the order they were read, and none follows
\* the on-closed callback.
T_C32_CallbackOrder ==
    /\ trace.polled =>
          LET transport == StepsIn(Reads \cup Writes)
              on_data == [i \in 1..Len(StepsIn({"read_ok"})) |-> "on_data"]
          IN  \/ trace.steps = transport \o on_data
              \/ trace.steps = (transport \o on_data) \o <<"on_closed">>
    /\ SelectSeq(clog.callbacks, LAMBDA x : x # ON_CLOSED) = [i \in 1..clog.rx |-> i]
    /\ \A i \in 1..(Len(clog.callbacks) - 1) : clog.callbacks[i] # ON_CLOSED

\* C32 case: a read returned data, the next read failed, and the same poll
\* delivered the data and then called on-closed.
W_C32_DataBeforeClosed ==
    /\ trace.steps = <<"read_ok", "read_raise", "on_data", "on_closed">>
    /\ clog.callbacks = <<1, ON_CLOSED>>

\* C33: once the on-closed callback has been called the queue of outbound
\* messages is empty, whatever was queued before, and a poll that starts
\* after a poll has found the connection closed calls the transport's write
\* for no message.
T_C33_QueueDiscarded ==
    /\ ClosedCallbacks >= 1 => conn.pub_queue = <<>>
    /\ (trace.polled /\ trace.was_closed) => StepsIn(Writes) = <<>>

\* C33 case: two messages were queued, the write of the first failed, the
\* second was dropped with the queue, and a later poll has run.
W_C33_DroppedUnwritten ==
    /\ trace.polled
    /\ trace.was_closed
    /\ Len(clog.sent) >= 2
    /\ Len(clog.writes) = 1
    /\ clog.writes[1].res = "raise"
    /\ ClosedCallbacks = 1

Failed == \E i \in DOMAIN trace.steps : trace.steps[i] \in {"read_raise", "write_raise"}

\* C34: a poll in which the transport fails on a read or a write is not left
\* by an exception, ends with the on-closed callback and leaves the
\* connection closed; a connection that was closed when a poll started is
\* closed after it, and no write follows a write that failed.
T_C34_FailureIsClosure ==
    /\ ~trace.escaped
    /\ (trace.polled /\ Failed) =>
          /\ conn.closed /\ conn.was_closed
          /\ trace.steps[Len(trace.steps)] = "on_closed"
    /\ (trace.polled /\ trace.closed) => conn.closed
    /\ \A i \in 1..(Len(clog.writes) - 1) : clog.writes[i].res # "raise"

\* C34 case: a write succeeded, the next one failed, and the poll ended
\* with on-closed.
W_C34_WriteFailed ==
    /\ trace.steps = <<"read_none", "write_ok", "write_raise", "on_closed">>
    /\ conn.closed
    /\ conn.buffer # 0

ClosedAtStart == trace.polled /\ (~trace.t_open \/ trace.close_called)

\* C35 as stated: a poll that starts when the transport is not open or
\* close() has been called marks the connection as just closed and calls
\* neither _read nor _write.
CE_C35_ClosedAtStartMarks ==
    ClosedAtStart =>
        /\ conn.did_just_close
        /\ StepsIn(Reads \cup Writes) = <<>>

\* C35 amended: such a poll calls neither _read nor _write, and it marks the
\* connection as just closed exactly when no earlier poll has found it
\* closed.
T_C35_ClosedAtStartNoIO ==
    ClosedAtStart =>
        /\ conn.did_just_close <=> ~trace.was_closed
        /\ StepsIn(Reads \cup Writes) = <<>>

\* C35 case: a message was queued, close() was called, and the first poll
\* after it did nothing but call on-closed.
W_C35_FirstPollAfterClose ==
    /\ ClosedAtStart
    /\ ~trace.was_closed
    /\ trace.steps = <<"on_closed">>
    /\ clog.sent # <<>>
    /\ clog.writes = <<>>

----------------------------------------------------------------------------
(* Properties of the rule tables of the edge switches *)

\* the from-MAC rules of `mac` in the table of sw, as sets of output ports
FromMacOutputs(sw, mac) ==
    {Outputs(r) : r \in {q \in sw.table :
                            /\ q.priority = PRIORITY_SEND_FROM_MAC
                            /\ q.dl_src = mac
                            /\ q.in_port = 0 /\ q.dl_dst = 0 /\ q.nw_src = 0 /\ q.nw_dst = 0}}

\* C36: after a packet-in on port p by which the switch learns a MAC, the
\* MAC is recorded with port 1 if p is 1 or 2 and with p otherwise, the table
\* sends frames for the MAC out the recorded port, and the MAC's from-MAC
\* rule floods only when the recorded port is 1 and floods and outputs on
\* port 1 otherwise; no packet-in and no port-status event changes the port
\* recorded for a MAC.
T_C36_LearnedMacRules ==
    \A i \in 1..Len(calls) :
        calls[i].op \in {"packet_in", "port_status"} =>
            LET sw == switch[calls[i].dpid]
                old == calls[i].before.mac_to_port
                mac == calls[i].mac
            IN  /\ \A m \in DOMAIN old : m \in DOMAIN sw.mac_to_port /\ sw.mac_to_port[m] = old[m]
                /\ (mac \in DOMAIN sw.mac_to_port /\ mac \notin DOMAIN old) =>
                      LET p == sw.mac_to_port[mac]
                      IN  /\ p = IF calls[i].port \in {1, 2} THEN 1 ELSE calls[i].port
                          /\ Rule(PRIORITY_SEND_TO_MAC, 0, 0, mac, 0, 0, <<p>>) \in sw.table
                          /\ FromMacOutputs(sw, mac) =
                                IF p = 1 THEN {{OFPP_FLOOD}} ELSE {{OFPP_FLOOD, 1}}

\* C36 case: a MAC was learned from a frame on port 2, beside a MAC already
\* recorded on a local port.
W_C36_LearnedOnPort2 ==
    /\ Len(calls) = 1
    /\ calls[1].op = "packet_in"
    /\ calls[1].port = 2
    /\ calls[1].mac \notin DOMAIN calls[1].before.mac_to_port
    /\ calls[1].mac \in DOMAIN switch[calls[1].dpid].mac_to_port
    /\ \E m \in DOMAIN calls[1].before.mac_to_port : calls[1].before.mac_to_port[m] = 3

\* frames from known and unknown stations
FrameMACs == MACs \cup {Cardinality(MACs) + 1}

\* C37: in every table an edge switch reaches, no frame that arrives on
\* port 1 or 2 leaves on port 1 or 2.
CE_C37_CoreNotBackToCore ==
    \A d \in EdgeDpids :
        \A in_port \in {1, 2} \cap switch[d].ports, dl_src \in FrameMACs, dl_dst \in FrameMACs :
            \A r \in Applied(switch[d].table, Frame(in_port, dl_src, dl_dst)) :
                Egress(switch[d].ports, switch[d].no_flood,
                       Frame(in_port, dl_src, dl_dst), r) \cap {1, 2} = {}

\* C38: the table of an edge switch holds the send-to-MAC rule and the
\* from-MAC rule of every MAC in the switch's MAC-to-port map.
CE_C38_MacRulesKept ==
    \A d \in EdgeDpids :
        \A mac \in DOMAIN switch[d].mac_to_port :
            /\ Rule(PRIORITY_SEND_TO_MAC, 0, 0, mac, 0, 0, <<switch[d].mac_to_port[mac]>>)
                  \in switch[d].table
            /\ FromMacOutputs(switch[d], mac) # {}

----------------------------------------------------------------------------
(* Properties of the routes of tracked flows *)

\* switch d holds a directed rule for the pair of key k out the port of `side`
HoldsRoute(d, side, k) ==
    \E q \in RouteRules(switch[d]) :
        /\ {q.nw_src, q.nw_dst} = {k[1], k[2]}
        /\ q.actions = <<IF side = "up" THEN (IF d = 1 THEN 1 ELSE 2)
                         ELSE (IF d = 1 THEN 2 ELSE 1)>>

\* C39: both edge switches hold the directed rule of every key in the up map
\* with the up ports (port 1 on switch 1, port 2 on switch 4) and of every
\* key in the down map with the down ports.
CE_C39_TrackedFlowsRouted ==
    \A d \in EdgeDpids :
        /\ \A k \in DOMAIN up_connections : HoldsRoute(d, "up", k)
        /\ \A k \in DOMAIN down_connections : HoldsRoute(d, "down", k)

----------------------------------------------------------------------------
(* Properties of the poller's size *)

\* C40: whenever size() can be called (the lock is free) it returns the
\* number of connections the working set will hold once the pending adds and
\* removes are applied.
CE_C40_SizeIsRegistered ==
    poller.lock = "free" =>
        size(poller) = Cardinality((poller.connections \ poller.removes) \cup poller.adds)

====
